---- MODULE Spec2Model ----
(***************************************************************************)
(* Transfer protocol engine of noisytransfercli: direct-mode INIT/DATA/FIN *)
(* streaming (transfer/default.js), the receive command's mismatch         *)
(* override (commands/recv.js), the auth replay wrapper and the handshake  *)
(* hooks (transfer/pq.js) and the CLI mode selection (cli.js).             *)
(***************************************************************************)
EXTENDS Integers, Sequences, FiniteSets, TLC

VARIABLES sx, chan, closed, rx, sink, tracker, back, cmd, hist, rp, au, md, wt, fsk, tp, td, bk

xferVars == <<sx, chan, closed, rx, sink, tracker, back, cmd, hist>>

vars == <<sx, chan, closed, rx, sink, tracker, back, cmd, hist, rp, au, md, wt, fsk, tp, td, bk>>

(***************************************************************************)
(* Bounds of the model.                                                    *)
(***************************************************************************)
MaxTail == 2
MaxChunks == 3
MaxWriteFail == 1
MaxInject == 4

(***************************************************************************)
(* JavaScript numbers, as far as totalBytes needs them: integers, halves   *)
(* (a fractional value v/2 with v odd), NaN, +Infinity, and null.          *)
(***************************************************************************)
NInt(n) == [k |-> "int", v |-> n]

NFrac(n) == [k |-> "frac", v |-> n]

NaN == [k |-> "nan", v |-> 0]

Infinity == [k |-> "inf", v |-> 1]

Null == [k |-> "null", v |-> 0]

NumberIsFinite(x) == x.k \in {"int", "frac"}

NumberIsInteger(x) == x.k = "int"

NumGt0(x) == x.k \in {"int", "frac", "inf"} /\ x.v > 0

NumGe0(x) == x.k \in {"int", "frac", "inf"} /\ x.v >= 0

\* Number(x) || 0
NumberOrZero(x) == IF x.k \in {"nan", "null"} \/ (x.k = "int" /\ x.v = 0) THEN NInt(0) ELSE x

\* n === x for an integer byte count n
StrictEq(n, x) == x.k = "int" /\ x.v = n

(***************************************************************************)
(* Byte sequences.                                                         *)
(***************************************************************************)
RECURSIVE Concat(_)
Concat(chunks) == IF chunks = <<>> THEN <<>> ELSE Head(chunks) \o Concat(Tail(chunks))

Take(s, n) == SubSeq(s, 1, IF n < Len(s) THEN n ELSE Len(s))

Drop(s, n) == SubSeq(s, n + 1, Len(s))

SeqsUpTo(S, n) == UNION {[1..m -> S] : m \in 0..n}

\* "NTM1"
META_MAGIC == <<78, 84, 77, 49>>

\* [ 4 bytes magic ] [ 1 byte nameLen ] [ name UTF-8 bytes ]
buildMetaHeader(name) == META_MAGIC \o <<Len(Take(name, 255))>> \o Take(name, 255)

NoInfo == [found |-> FALSE, name |-> <<>>, data |-> <<>>]

stripMetaHeader(u8) ==
  IF Len(u8) >= 5 /\ Take(u8, 4) = META_MAGIC /\ Len(u8) >= 5 + u8[5]
  THEN [found |-> TRUE, name |-> SubSeq(u8, 6, 5 + u8[5]), data |-> Drop(u8, 5 + u8[5])]
  ELSE NoInfo

(***************************************************************************)
(* Frames (the shapes packStreamInit / packStreamData / packStreamFin      *)
(* produce and parseStream* accept).                                       *)
(***************************************************************************)
SID == "s1"

FOREIGN == "s2"

packStreamInit(sid, total) == [type |-> "ns_init", sessionId |-> sid, totalBytes |-> total]

packStreamData(sid, seq, chunk) == [type |-> "ns_data", sessionId |-> sid, seq |-> seq, chunk |-> chunk]

packStreamFin(sid, ok) == [type |-> "ns_fin", sessionId |-> sid, ok |-> ok]

(***************************************************************************)
(* Inputs of a send: payload, its split into source chunks, the announced  *)
(* total and the optional filename.                                        *)
(***************************************************************************)
Prefixes == {<<>>, META_MAGIC \o <<0>>, META_MAGIC \o <<1>>}

\* n distinct bytes 7, 8, ...
TailOf(n) == [i \in 1..n |-> 6 + i]

Payloads == {p \o TailOf(n) : p \in Prefixes, n \in 0..MaxTail} \ {<<>>}

\* all ways of cutting B into at most MaxChunks consecutive chunks (an empty
\* chunk is a chunk a stream may yield too)
RECURSIVE Splits(_, _)
Splits(B, n) ==
  IF n = 1 THEN {<<B>>}
  ELSE {<<B>>} \cup UNION {{<<Take(B, i)>> \o r : r \in Splits(Drop(B, i), n - 1)} : i \in 0..(Len(B) - 1)}

Names == {<<>>, <<97>>}

TotalChoices(B) == {NInt(Len(B)), NInt(Len(B) + 1), NInt(Len(B) - 1), NInt(-1), NFrac(5), NaN}

(***************************************************************************)
(* Rest values of the parts of the state a specification does not use.     *)
(***************************************************************************)
RpIdle ==
  [buf |-> <<>>, consumerAttached |-> FALSE, sub |-> "none",
   arrived |-> <<>>, delivered |-> <<>>, attachedAt |-> 0, detachedAt |-> 0]

AuIdle == [mode |-> "none"]

MdIdle == [phase |-> "none"]

WtIdle == [s |-> "idle", sTimer |-> FALSE, r |-> "idle", rTimer |-> FALSE]

FskIdle == [pc |-> "none"]

TpIdle == [pc |-> "none"]

BkIdle == [rooms |-> 0]

\* hasFlush: the channel object has the optional flush()
\* sRtc / sSig: the sender's peer channel and signaling client
TdIdle ==
  [s |-> "idle", sLog |-> <<>>, r |-> "idle", rLog |-> <<>>, hasFlush |-> TRUE,
   sRtc |-> "open", sSig |-> "open", total |-> [k |-> "int", v |-> 1]]

(***************************************************************************)
(* The sniffing sink of the receive command (makeSniffingSink).            *)
(***************************************************************************)
DefaultLabel == <<110, 116>>

SinkInit ==
  [started |-> FALSE, written |-> 0, announced |-> NInt(0), label |-> <<>>,
   desiredName |-> <<>>, data |-> <<>>]

startIfNeeded(sk) ==
  IF sk.started THEN sk
  ELSE [sk EXCEPT !.started = TRUE,
                  !.label = IF sk.desiredName # <<>> THEN sk.desiredName ELSE DefaultLabel]

\* sink.info({ totalBytes }) that also starts the stream
sinkInfoTotalStarting(sk, total) ==
  startIfNeeded(IF NumberIsFinite(total) /\ NumGe0(total)
                THEN [sk EXCEPT !.announced = total] ELSE sk)

\* sink.info({ totalBytes })
sinkInfoTotal(sk, total) ==
  IF NumberIsFinite(total) /\ NumGe0(total) THEN [sk EXCEPT !.announced = total] ELSE sk

\* sink.info({ name })
sinkInfoName(sk, name) == IF name # <<>> THEN [sk EXCEPT !.desiredName = name] ELSE sk

\* sink.write(u8) up to the point where the stream write is pending
sinkWrite(sk, u8) ==
  LET s1 == startIfNeeded(sk)
  IN IF Len(u8) = 0 THEN s1
     ELSE [s1 EXCEPT !.written = @ + Len(u8), !.data = @ \o u8]

getStats(sk) == [written |-> sk.written, announced |-> sk.announced]

(***************************************************************************)
(* attachInitFinTracker: taps ns_init / ns_fin on the raw channel.         *)
(***************************************************************************)
TrackerInit == [sawInit |-> FALSE, sawFin |-> FALSE]

trackerOnMessage(tr, m) ==
  IF m.type = "ns_init" /\ m.sessionId = SID THEN [tr EXCEPT !.sawInit = TRUE]
  ELSE IF m.type = "ns_fin" /\ m.sessionId = SID THEN [tr EXCEPT !.sawFin = TRUE]
  ELSE tr

trackerSink(sk, m) ==
  IF m.type = "ns_init" /\ m.sessionId = SID
  THEN sinkInfoTotal(sk, NumberOrZero(m.totalBytes))
  ELSE sk

(***************************************************************************)
(* defaultRecv.  The write queue is a list of tasks; the head task may be  *)
(* a sink write whose stream callback is still pending (inflight).         *)
(***************************************************************************)
RxInit ==
  [pc |-> "auth", subscribed |-> FALSE, closeSub |-> FALSE, announced |-> Null,
   written |-> 0, done |-> FALSE, metaSeen |-> FALSE, queue |-> <<>>,
   inflight |-> FALSE, queueErr |-> FALSE, doneP |-> "pending", hop |-> 0,
   pq |-> FALSE, wrapSeen |-> FALSE]

CmdInit ==
  [state |-> "running", err |-> "none", downgraded |-> FALSE,
   st |-> [written |-> 0, announced |-> NInt(0)]]

HistInit ==
  [missed |-> FALSE, wfail |-> 0, by |-> "none", ok |-> TRUE,
   written |-> 0, announced |-> Null, injected |-> 0, faults |-> 0, hdr |-> 0,
   foreign |-> FALSE]

\* late: the task was enqueued after a Fin or the close had been seen
WriteTask(u8) == [t |-> "write", data |-> u8, ok |-> TRUE, late |-> FALSE]

FinTask(ok) == [t |-> "fin", data |-> <<>>, ok |-> ok, late |-> FALSE]

CloseTask == [t |-> "close", data |-> <<>>, ok |-> TRUE, late |-> FALSE]

\* announced != null && announced !== 0 && written !== announced
SizeMismatch(r) ==
  /\ r.announced # Null
  /\ r.announced # NInt(0)
  /\ ~StrictEq(r.written, r.announced)

\* the completion check of the FIN branch (the .finally callback)
FinOutcome(r, ok) ==
  IF SizeMismatch(r) THEN "NC_SIZE_MISMATCH"
  ELSE IF ok = FALSE THEN "NC_SENDER_FAIL"
  ELSE "resolved"

\* the completion check of onClose
CloseOutcome(r) == IF SizeMismatch(r) THEN "NC_EOF" ELSE "resolved"

\* the mismatch override of safeRecv, on the error message and the sink stats
safeRecvSuppressAnyError(err, st, tr) ==
  \/ err = "NC_SIZE_MISMATCH" /\ NumGt0(st.announced) /\ StrictEq(st.written, st.announced)
  \/ tr.sawFin /\ tr.sawInit /\ st.written > 0

safeRecvSuppressUnwritten(err, st, tr) ==
  /\ err = "NC_SIZE_MISMATCH"
  /\ \/ NumGt0(st.announced) /\ StrictEq(st.written, st.announced)
     \/ tr.sawFin /\ tr.sawInit

safeRecvSuppress(err, st, tr) ==
  /\ err = "NC_SIZE_MISMATCH"
  /\ \/ NumGt0(st.announced) /\ StrictEq(st.written, st.announced)
     \/ tr.sawFin /\ tr.sawInit /\ st.written > 0

\* the write of wrapSinkStripMeta, the sink pqRecv hands to the transfer
\* primitive: the first chunk loses its MetaHeader, an empty rest is not
\* written at all
wrapSinkStripMetaWrite(W) ==
  LET data == Head(W.rx.queue).data
      info == IF W.rx.wrapSeen THEN NoInfo ELSE stripMetaHeader(data)
      u8 == IF info.found THEN info.data ELSE data
      sk == IF info.found THEN sinkInfoName(W.sink, info.name) ELSE W.sink
  IN IF Len(u8) = 0
     THEN [W EXCEPT !.rx.wrapSeen = TRUE, !.sink = sk, !.rx.queue = Tail(@),
                    !.rx.written = @ + Len(data)]
     ELSE [W EXCEPT !.rx.wrapSeen = TRUE, !.sink = sinkWrite(sk, u8),
                    !.rx.inflight = TRUE]

\* one task of the queue, run as far as it goes without waiting for I/O
RunHead(W) ==
  LET task == Head(W.rx.queue)
      r == W.rx
  IN IF task.t = "write" /\ r.pq
     THEN wrapSinkStripMetaWrite(W)
     ELSE IF task.t = "write"
     THEN IF Len(task.data) = 0
          THEN [W EXCEPT !.sink = sinkWrite(@, task.data), !.rx.queue = Tail(@)]
          ELSE [W EXCEPT !.sink = sinkWrite(@, task.data), !.rx.inflight = TRUE]
     ELSE LET out == IF task.t = "fin" THEN FinOutcome(r, task.ok) ELSE CloseOutcome(r)
          IN IF r.doneP = "pending"
             THEN [W EXCEPT !.rx.queue = Tail(@), !.rx.subscribed = FALSE,
                            !.rx.doneP = out, !.rx.hop = 2,
                            !.hist.by = task.t, !.hist.ok = task.ok,
                            !.hist.written = r.written, !.hist.announced = r.announced]
             ELSE [W EXCEPT !.rx.queue = Tail(@), !.rx.subscribed = FALSE]

\* the continuation of defaultRecv after doneP settles, and safeRecv around it
SettleAckAlways(W, tr) ==
  LET st == getStats(W.sink)
      r == [W.rx EXCEPT !.hop = 0, !.closeSub = FALSE, !.pc = "done"]
      ack == Append(W.back, packStreamFin(SID, TRUE))
  IN IF W.rx.doneP = "resolved"
     THEN [W EXCEPT !.rx = r, !.back = ack, !.cmd.state = "ok"]
     ELSE IF safeRecvSuppress(W.rx.doneP, st, tr)
          THEN [W EXCEPT !.rx = r, !.back = ack, !.cmd.state = "ok",
                         !.cmd.err = W.rx.doneP, !.cmd.downgraded = TRUE, !.cmd.st = st]
          ELSE [W EXCEPT !.rx = r, !.back = ack, !.cmd.state = "failed",
                         !.cmd.err = W.rx.doneP, !.cmd.st = st]

Settle(W, tr) ==
  LET st == getStats(W.sink)
      r == [W.rx EXCEPT !.hop = 0, !.closeSub = FALSE, !.pc = "done"]
  IN IF W.rx.doneP = "resolved"
     THEN [W EXCEPT !.rx = r, !.back = Append(@, packStreamFin(SID, TRUE)),
                    !.cmd.state = "ok"]
     ELSE IF safeRecvSuppress(W.rx.doneP, st, tr)
          THEN [W EXCEPT !.rx = r, !.cmd.state = "ok", !.cmd.err = W.rx.doneP,
                         !.cmd.downgraded = TRUE, !.cmd.st = st]
          ELSE [W EXCEPT !.rx = r, !.cmd.state = "failed", !.cmd.err = W.rx.doneP,
                         !.cmd.st = st]

Runnable(W) == W.rx.queue # <<>> /\ ~W.rx.inflight

\* the microtasks that follow a handler: queued tasks run until one waits
\* for the stream; a settled doneP reaches safeRecv one task start later
RECURSIVE Drain(_, _)
Drain(W, tr) ==
  IF W.rx.hop = 2
  THEN Drain([(IF Runnable(W) THEN RunHead(W) ELSE W) EXCEPT !.rx.hop = 1], tr)
  ELSE IF W.rx.hop = 1 THEN Drain(Settle(W, tr), tr)
  ELSE IF Runnable(W) THEN Drain(RunHead(W), tr)
  ELSE W

\* the onMessage handler of defaultRecv
rxOnMessageFinFirst(W, m) ==
  IF ~W.rx.subscribed \/ m.sessionId # SID THEN W
  ELSE IF m.type = "ns_init"
  THEN [W EXCEPT !.rx.announced = NumberOrZero(m.totalBytes)]
  ELSE IF m.type = "ns_data"
  THEN LET info == IF W.rx.metaSeen \/ W.rx.pq THEN NoInfo ELSE stripMetaHeader(m.chunk)
           u8 == IF info.found THEN info.data ELSE m.chunk
       IN [W EXCEPT !.rx.metaSeen = TRUE,
                    !.sink = IF info.found THEN sinkInfoName(@, info.name) ELSE @,
                    !.rx.queue = Append(@, [WriteTask(u8) EXCEPT !.late = W.rx.done])]
  ELSE IF m.type = "ns_fin"
  THEN [W EXCEPT !.rx.done = TRUE, !.rx.queue = <<FinTask(m.ok)>> \o @]
  ELSE W

\* the onMessage handler of defaultRecv without the comparison of the
\* frame's sessionId
rxOnMessageAnySession(W, m) ==
  IF ~W.rx.subscribed THEN W
  ELSE IF m.type = "ns_init"
  THEN [W EXCEPT !.rx.announced = NumberOrZero(m.totalBytes)]
  ELSE IF m.type = "ns_data"
  THEN LET info == IF W.rx.metaSeen \/ W.rx.pq THEN NoInfo ELSE stripMetaHeader(m.chunk)
           u8 == IF info.found THEN info.data ELSE m.chunk
       IN [W EXCEPT !.rx.metaSeen = TRUE,
                    !.sink = IF info.found THEN sinkInfoName(@, info.name) ELSE @,
                    !.rx.queue = Append(@, [WriteTask(u8) EXCEPT !.late = W.rx.done])]
  ELSE IF m.type = "ns_fin"
  THEN [W EXCEPT !.rx.done = TRUE, !.rx.queue = Append(@, FinTask(m.ok))]
  ELSE W

\* the onMessage handler of defaultRecv: INIT, DATA and FIN branches
rxOnMessage(W, m) ==
  IF ~W.rx.subscribed \/ m.sessionId # SID THEN W
  ELSE IF m.type = "ns_init"
  THEN [W EXCEPT !.rx.announced = NumberOrZero(m.totalBytes)]
  ELSE IF m.type = "ns_data"
  THEN LET info == IF W.rx.metaSeen \/ W.rx.pq THEN NoInfo ELSE stripMetaHeader(m.chunk)
           u8 == IF info.found THEN info.data ELSE m.chunk
       IN [W EXCEPT !.rx.metaSeen = TRUE,
                    !.sink = IF info.found THEN sinkInfoName(@, info.name) ELSE @,
                    !.rx.queue = Append(@, [WriteTask(u8) EXCEPT !.late = W.rx.done])]
  ELSE IF m.type = "ns_fin"
  THEN [W EXCEPT !.rx.done = TRUE, !.rx.queue = Append(@, FinTask(m.ok))]
  ELSE W

\* the onClose handler of defaultRecv
rxOnClose(W) ==
  IF ~W.rx.closeSub \/ W.rx.done THEN W
  ELSE [W EXCEPT !.rx.done = TRUE, !.rx.queue = Append(@, CloseTask)]

World == [rx |-> rx, sink |-> sink, back |-> back, cmd |-> cmd, hist |-> hist]

SetWorld(W) ==
  /\ rx' = W.rx
  /\ sink' = W.sink
  /\ back' = W.back
  /\ cmd' = W.cmd
  /\ hist' = W.hist

(***************************************************************************)
(* defaultSend, from the point where dtlsAuthSender has resolved.          *)
(***************************************************************************)
SxIdle ==
  [pc |-> "idle", source |-> <<>>, total |-> NInt(0), name |-> <<>>,
   seq |-> 0, sent |-> 0, i |-> 1, log |-> <<>>,
   ended |-> TRUE, srcErr |-> FALSE]

\* !Number.isFinite(total) || total <= 0
totalRejected(total) == ~NumberIsFinite(total) \/ ~NumGt0(total)

\* send.js run: the computed totalBytes is checked before the transfer starts
runTotalValid(total) == NumberIsInteger(total) /\ NumGt0(total)

RunReject ==
  /\ sx.pc = "run"
  /\ ~runTotalValid(sx.total)
  /\ sx' = [sx EXCEPT !.pc = "failed"]
  /\ UNCHANGED <<chan, closed, rx, sink, tracker, back, cmd, hist, rp, au, md, wt, fsk, tp, td, bk>>

RunAccept ==
  /\ sx.pc = "run"
  /\ runTotalValid(sx.total)
  /\ sx' = [sx EXCEPT !.pc = "authed"]
  /\ UNCHANGED <<chan, closed, rx, sink, tracker, back, cmd, hist, rp, au, md, wt, fsk, tp, td, bk>>

SendReject ==
  /\ sx.pc = "authed"
  /\ ~closed
  /\ totalRejected(sx.total)
  /\ sx' = [sx EXCEPT !.pc = "failed"]
  /\ UNCHANGED <<chan, closed, rx, sink, tracker, back, cmd, hist, rp, au, md, wt, fsk, tp, td, bk>>

SendStart ==
  /\ sx.pc = "authed"
  /\ ~closed
  /\ ~totalRejected(sx.total)
  /\ LET init == packStreamInit(SID, sx.total)
         hdr == packStreamData(SID, 0, buildMetaHeader(sx.name))
         out == IF sx.name # <<>> THEN <<init, hdr>> ELSE <<init>>
     IN /\ chan' = chan \o out
        /\ sx' = [sx EXCEPT !.pc = "stream", !.log = @ \o out,
                            !.seq = IF sx.name # <<>> THEN 1 ELSE 0]
  /\ UNCHANGED <<closed, rx, sink, tracker, back, cmd, hist, rp, au, md, wt, fsk, tp, td, bk>>

SendChunkSeqOnEmpty ==
  /\ sx.pc = "stream"
  /\ ~closed
  /\ sx.i <= Len(sx.source)
  /\ ~sx.srcErr
  /\ LET u8 == sx.source[sx.i]
         m == packStreamData(SID, sx.seq, u8)
     IN IF Len(u8) = 0
        THEN /\ sx' = [sx EXCEPT !.i = @ + 1, !.seq = @ + 1]
             /\ chan' = chan
        ELSE /\ sx' = [sx EXCEPT !.i = @ + 1, !.seq = @ + 1, !.sent = @ + Len(u8),
                                 !.log = Append(@, m)]
             /\ chan' = Append(chan, m)
  /\ UNCHANGED <<closed, rx, sink, tracker, back, cmd, hist, rp, au, md, wt, fsk, tp, td, bk>>

SendChunk ==
  /\ sx.pc = "stream"
  /\ ~closed
  /\ sx.i <= Len(sx.source)
  /\ ~sx.srcErr
  /\ LET u8 == sx.source[sx.i]
         m == packStreamData(SID, sx.seq, u8)
     IN IF Len(u8) = 0
        THEN /\ sx' = [sx EXCEPT !.i = @ + 1]
             /\ chan' = chan
        ELSE /\ sx' = [sx EXCEPT !.i = @ + 1, !.seq = @ + 1, !.sent = @ + Len(u8),
                                 !.log = Append(@, m)]
             /\ chan' = Append(chan, m)
  /\ UNCHANGED <<closed, rx, sink, tracker, back, cmd, hist, rp, au, md, wt, fsk, tp, td, bk>>

SendFinAlwaysOk ==
  /\ sx.pc = "stream"
  /\ ~closed
  /\ sx.i > Len(sx.source)
  /\ sx.ended /\ ~sx.srcErr
  /\ LET m == packStreamFin(SID, TRUE)
     IN /\ sx' = [sx EXCEPT !.pc = "flush", !.log = Append(@, m)]
        /\ chan' = Append(chan, m)
  /\ UNCHANGED <<closed, rx, sink, tracker, back, cmd, hist, rp, au, md, wt, fsk, tp, td, bk>>

SendFin ==
  /\ sx.pc = "stream"
  /\ ~closed
  /\ sx.i > Len(sx.source)
  /\ sx.ended /\ ~sx.srcErr
  /\ LET m == packStreamFin(SID, StrictEq(sx.sent, sx.total))
     IN /\ sx' = [sx EXCEPT !.pc = "flush", !.log = Append(@, m)]
        /\ chan' = Append(chan, m)
  /\ UNCHANGED <<closed, rx, sink, tracker, back, cmd, hist, rp, au, md, wt, fsk, tp, td, bk>>

SendFlush ==
  /\ sx.pc = "flush"
  /\ sx' = [sx EXCEPT !.pc = "done"]
  /\ UNCHANGED <<chan, closed, rx, sink, tracker, back, cmd, hist, rp, au, md, wt, fsk, tp, td, bk>>

(***************************************************************************)
(* The receiving side: events of the channel and of the sink's stream.     *)
(***************************************************************************)
\* dtlsAuthReceiver has resolved: defaultRecv subscribes onMessage / onClose
RecvStart ==
  /\ rx.pc = "auth"
  /\ cmd.state = "running"
  /\ rx' = [rx EXCEPT !.pc = "recv", !.subscribed = TRUE, !.closeSub = ~closed]
  /\ UNCHANGED <<sx, chan, closed, sink, tracker, back, cmd, hist, rp, au, md, wt, fsk, tp, td, bk>>

\* one frame reaches the receiver: the tracker's listener, then defaultRecv's
Deliver ==
  /\ chan # <<>>
  /\ ~closed
  /\ cmd.state = "running"
  /\ LET m == Head(chan)
         tr == trackerOnMessage(tracker, m)
         W1 == [World EXCEPT !.sink = trackerSink(@, m),
                             !.hist.missed = @ \/ (rx.pc = "auth" /\ m.sessionId = SID),
                             !.hist.foreign = @ \/ (rx.subscribed /\ m.sessionId # SID)]
     IN /\ tracker' = tr
        /\ SetWorld(Drain(rxOnMessage(W1, m), tr))
  /\ chan' = Tail(chan)
  /\ UNCHANGED <<sx, closed, rp, au, md, wt, fsk, tp, td, bk>>

\* the stream callback of the pending sink write reports success
WriteDone ==
  /\ rx.inflight
  /\ cmd.state = "running"
  /\ LET n == Len(Head(rx.queue).data)
         W1 == [World EXCEPT !.rx.inflight = FALSE, !.rx.queue = Tail(@),
                             !.rx.written = @ + n]
     IN SetWorld(Drain(W1, tracker))
  /\ UNCHANGED <<sx, chan, closed, tracker, rp, au, md, wt, fsk, tp, td, bk>>

\* the stream callback of the pending sink write reports an error
WriteFail ==
  /\ rx.inflight
  /\ cmd.state = "running"
  /\ hist.wfail < MaxWriteFail
  /\ LET W1 == [World EXCEPT !.rx.inflight = FALSE, !.rx.queue = Tail(@),
                             !.rx.queueErr = TRUE, !.hist.wfail = @ + 1]
     IN SetWorld(Drain(W1, tracker))
  /\ UNCHANGED <<sx, chan, closed, tracker, rp, au, md, wt, fsk, tp, td, bk>>

\* the channel closes; frames still in flight are lost
ChannelClose ==
  /\ ~closed
  /\ cmd.state = "running"
  /\ closed' = TRUE
  /\ chan' = <<>>
  /\ SetWorld(Drain(rxOnClose(World), tracker))
  /\ UNCHANGED <<sx, tracker, rp, au, md, wt, fsk, tp, td, bk>>

(***************************************************************************)
(* Spec: a defaultSend and a defaultRecv of one session, end to end.       *)
(***************************************************************************)
Init ==
  /\ \E B \in Payloads : \E src \in Splits(B, MaxChunks) :
     \E t \in TotalChoices(B) : \E nm \in Names : \E entry \in {"run", "authed"} :
       sx = [SxIdle EXCEPT !.pc = entry, !.source = src, !.total = t, !.name = nm]
  /\ chan = <<>>
  /\ closed = FALSE
  /\ rx = RxInit
  /\ sink = SinkInit
  /\ tracker = TrackerInit
  /\ back = <<>>
  /\ cmd = CmdInit
  /\ hist = HistInit
  /\ rp = RpIdle
  /\ au = AuIdle
  /\ md = MdIdle
  /\ bk = BkIdle
  /\ td = TdIdle
  /\ tp = TpIdle
  /\ fsk = FskIdle
  /\ wt = WtIdle

Next ==
  \/ RunReject
  \/ RunAccept
  \/ SendReject
  \/ SendStart
  \/ SendChunk
  \/ SendFin
  \/ SendFlush
  \/ RecvStart
  \/ Deliver
  \/ WriteDone
  \/ WriteFail
  \/ ChannelClose

Spec == Init /\ [][Next]_vars


(***************************************************************************)
(* Properties of the direct-mode transfer.                                 *)
(***************************************************************************)
Payload == Concat(sx.source)

\* the run the round-trip property is about: the announced total is |B|, the
\* receiver was subscribed before the first frame, the channel stayed open,
\* no sink write failed, and everything sent has been handled
CleanRunOver ==
  /\ sx.pc = "done"
  /\ sx.total = NInt(Len(Payload))
  /\ ~hist.missed
  /\ hist.wfail = 0
  /\ ~closed
  /\ chan = <<>>
  /\ rx.pc # "auth"
  /\ rx.queue = <<>>

\* C1: for every non-empty payload B and every split into chunks, sent with
\* totalBytes = |B| over an ordered reliable channel, defaultRecv completes
\* successfully and the bytes passed to sink.write are B, with or without a
\* filename header.
C1_RoundTrip ==
  CleanRunOver => (rx.doneP = "resolved" /\ cmd.state = "ok" /\ sink.data = Payload)

\* C3: when the sender's Fin carries ok:false the receive rejects with
\* NC_SENDER_FAIL and never ends in success (stated for runs in which the
\* receiver saw every frame and no sink write failed).
C3_SenderFailRejects ==
  (hist.by = "fin" /\ ~hist.ok /\ ~hist.missed /\ hist.wfail = 0) =>
    (rx.doneP = "NC_SENDER_FAIL" /\ cmd.state # "ok")

\* C4: when the channel closes before a Fin was observed, defaultRecv resolves
\* only if written = announced, and rejects with NC_EOF otherwise.
C4_CloseBeforeFin ==
  hist.by = "close" =>
    IF StrictEq(hist.written, hist.announced)
    THEN rx.doneP = "resolved"
    ELSE rx.doneP = "NC_EOF"

\* C6: a totalBytes that is not a positive integer is rejected by the sender
\* and no Init frame is sent.
C6_TotalMustBePositiveInteger ==
  ~(NumberIsInteger(sx.total) /\ NumGt0(sx.total)) =>
    (sx.log = <<>> /\ sx.pc \in {"run", "authed", "failed"})

(***************************************************************************)
(* SpecFrames: defaultRecv against a peer that sends arbitrary frames.     *)
(***************************************************************************)
InjectFrames ==
  {packStreamInit(SID, NInt(2)), packStreamInit(SID, NInt(0)),
   packStreamInit(FOREIGN, NInt(1)),
   packStreamData(SID, 0, <<7>>), packStreamData(FOREIGN, 0, <<7>>),
   packStreamFin(SID, TRUE), packStreamFin(SID, FALSE),
   packStreamFin(FOREIGN, TRUE)}

Inject ==
  /\ sx.pc = "idle"
  /\ ~closed
  /\ cmd.state = "running"
  /\ hist.injected < MaxInject
  /\ \E m \in InjectFrames : chan' = Append(chan, m)
  /\ hist' = [hist EXCEPT !.injected = @ + 1]
  /\ UNCHANGED <<sx, closed, rx, sink, tracker, back, cmd, rp, au, md, wt, fsk, tp, td, bk>>

\* dtlsAuthReceiver rejects (SAS refused, fingerprint mismatch, timeout):
\* defaultRecv throws before it subscribes, safeRecv sees the error
AuthFail ==
  /\ rx.pc = "auth"
  /\ cmd.state = "running"
  /\ SetWorld(Settle([World EXCEPT !.rx.doneP = "AUTH"], tracker))
  /\ UNCHANGED <<sx, chan, closed, tracker, rp, au, md, wt, fsk, tp, td, bk>>

\* the body of the onMessage handler throws: the catch branch rejects doneP
ProtocolError ==
  /\ rx.subscribed
  /\ rx.doneP = "pending"
  /\ cmd.state = "running"
  /\ ~closed
  /\ LET W1 == [World EXCEPT !.rx.queueErr = TRUE, !.rx.doneP = "NC_PROTOCOL",
                             !.rx.hop = 2]
     IN SetWorld(Drain(W1, tracker))
  /\ UNCHANGED <<sx, chan, closed, tracker, rp, au, md, wt, fsk, tp, td, bk>>

InitFrames ==
  /\ sx = SxIdle
  /\ chan = <<>>
  /\ closed = FALSE
  /\ rx = RxInit
  /\ sink = SinkInit
  /\ tracker = TrackerInit
  /\ back = <<>>
  /\ cmd = CmdInit
  /\ hist = HistInit
  /\ rp = RpIdle
  /\ au = AuIdle
  /\ md = MdIdle
  /\ bk = BkIdle
  /\ td = TdIdle
  /\ tp = TpIdle
  /\ fsk = FskIdle
  /\ wt = WtIdle

NextFrames ==
  \/ Inject
  \/ RecvStart
  \/ Deliver
  \/ WriteDone
  \/ WriteFail
  \/ ChannelClose
  \/ AuthFail
  \/ ProtocolError

SpecFrames == InitFrames /\ [][NextFrames]_vars

(***************************************************************************)
(* Properties of defaultRecv and safeRecv against arbitrary frames.        *)
(***************************************************************************)
\* C2: on a Fin that follows an Init, defaultRecv resolves only if the bytes
\* written equal the total announced by Init and fin.ok is true; otherwise it
\* rejects with the size-mismatch or the sender-failure error.
C2_FinResolvesOnlyOnMatch ==
  (hist.by = "fin" /\ hist.announced # Null /\ hist.wfail = 0) =>
    IF StrictEq(hist.written, hist.announced) /\ hist.ok
    THEN rx.doneP = "resolved"
    ELSE rx.doneP \in {"NC_SIZE_MISMATCH", "NC_SENDER_FAIL"}

FatalErrors == {"AUTH", "NC_SENDER_FAIL", "NC_EOF", "NC_PROTOCOL"}

MAX == 32

MaxPrefix == 1

MaxArrive == 35

AUTH_TYPES == {"commit", "offer", "reveal", "rcvconfirm"}

FrameShapes ==
  { [obj |-> TRUE, type |-> "commit", has |-> "", sessionId |-> SID],
    [obj |-> TRUE, type |-> "offer", has |-> "", sessionId |-> SID],
    [obj |-> TRUE, type |-> "", has |-> "reveal", sessionId |-> ""],
    [obj |-> TRUE, type |-> "rcvconfirm", has |-> "", sessionId |-> ""],
    [obj |-> TRUE, type |-> "commit", has |-> "", sessionId |-> FOREIGN],
    [obj |-> TRUE, type |-> "ns_init", has |-> "offer", sessionId |-> SID],
    [obj |-> TRUE, type |-> "", has |-> "", sessionId |-> SID],
    [obj |-> FALSE, type |-> "", has |-> "", sessionId |-> ""] }

\* the handshake frames a counterpart sends in a burst, in a fixed rotation
BurstShape(n) ==
  LET k == n % 4
  IN  [obj |-> TRUE,
       type |-> IF k = 0 THEN "commit" ELSE IF k = 1 THEN "offer"
                ELSE IF k = 2 THEN "reveal" ELSE "rcvconfirm",
       has |-> "", sessionId |-> IF k = 3 THEN "" ELSE SID]

Stamp(shape, n) ==
  [obj |-> shape.obj, type |-> shape.type, has |-> shape.has,
   sessionId |-> shape.sessionId, n |-> n]

\* m.type || (m.offer && "offer") || (m.reveal && "reveal") || ... || null
authType(m) == IF m.type # "" THEN m.type ELSE m.has

\* the tap's filter: an object of an allow-listed kind, not of a foreign session
tapAccepts(m, sessionId) ==
  /\ m.obj
  /\ authType(m) \in AUTH_TYPES
  /\ ~(m.sessionId # "" /\ sessionId # "" /\ m.sessionId # sessionId)

\* buf.push({t, m}); if (buf.length > MAX) buf.shift()
pushBoundedKeepOldest(buf, e) ==
  IF Len(buf) >= MAX THEN buf ELSE Append(buf, e)

\* buf.push without the shift
pushBoundedNoShift(buf, e) == Append(buf, e)

\* buf.push({ t, m }); if (buf.length > MAX) buf.shift();
pushBounded(buf, e) ==
  LET b == Append(buf, e) IN IF Len(b) > MAX THEN Tail(b) ELSE b

\* the tap listener without `if (consumerAttached) return`
tapAlwaysBuffers(r, m) ==
  IF ~tapAccepts(m, SID) THEN r
  ELSE [r EXCEPT !.buf = pushBounded(r.buf, m)]

\* the tap listener, registered on the raw transport when the wrapper is made
tap(r, m) ==
  IF ~tapAccepts(m, SID) THEN r
  ELSE IF r.consumerAttached THEN r
  ELSE [r EXCEPT !.buf = pushBounded(r.buf, m)]

\* the pass-through listener wrapped.onMessage registers for its subscriber
passThrough(r, m) ==
  IF r.sub = "on" THEN [r EXCEPT !.delivered = Append(r.delivered, m)] ELSE r

\* a frame arrives on the raw transport: the tap first, then the subscriber
Arrive ==
  /\ Len(rp.arrived) < MaxArrive
  /\ \E shape \in (IF Len(rp.arrived) < MaxPrefix THEN FrameShapes
                   ELSE {BurstShape(Len(rp.arrived))}) :
       LET m == Stamp(shape, Len(rp.arrived) + 1)
           r1 == [rp EXCEPT !.arrived = Append(rp.arrived, m)]
       IN  rp' = passThrough(tap(r1, m), m)
  /\ UNCHANGED <<xferVars, au, md, wt, fsk, tp, td, bk>>

\* wrapped.onMessage(cb): the first subscriber attaches
Subscribe ==
  /\ rp.sub = "none"
  /\ rp' = [rp EXCEPT !.consumerAttached = TRUE,
                      !.delivered = rp.delivered \o rp.buf,
                      !.buf = <<>>,
                      !.sub = "on",
                      !.attachedAt = Len(rp.arrived)]
  /\ UNCHANGED <<xferVars, au, md, wt, fsk, tp, td, bk>>

\* the subscriber calls the unsubscribe function onMessage returned
Unsubscribe ==
  /\ rp.sub = "on"
  /\ rp' = [rp EXCEPT !.sub = "off", !.detachedAt = Len(rp.arrived)]
  /\ UNCHANGED <<xferVars, au, md, wt, fsk, tp, td, bk>>

XferIdle ==
  /\ sx = SxIdle
  /\ chan = <<>>
  /\ closed = FALSE
  /\ rx = RxInit
  /\ sink = SinkInit
  /\ tracker = TrackerInit
  /\ back = <<>>
  /\ cmd = CmdInit
  /\ hist = HistInit

InitReplay ==
  /\ XferIdle
  /\ rp = RpIdle
  /\ au = AuIdle
  /\ md = MdIdle
  /\ bk = BkIdle
  /\ td = TdIdle
  /\ tp = TpIdle
  /\ fsk = FskIdle
  /\ wt = WtIdle

NextReplay ==
  \/ Arrive
  \/ Subscribe
  \/ Unsubscribe

SpecReplay == InitReplay /\ [][NextReplay]_vars

\* the frames of this session that the wrapper is there to keep
Eligible(frames) == SelectSeq(frames, LAMBDA m : tapAccepts(m, SID))

LastN(q, n) == IF Len(q) <= n THEN q ELSE SubSeq(q, Len(q) - n + 1, Len(q))

BeforeSub == SubSeq(rp.arrived, 1, rp.attachedAt)

AfterSub ==
  SubSeq(rp.arrived, rp.attachedAt + 1,
         IF rp.sub = "off" THEN rp.detachedAt ELSE Len(rp.arrived))

\* C5 (as stated): once the first subscriber has attached, it has received
\* every allow-listed handshake frame that arrived before it subscribed, in
\* arrival order and once each, followed by every frame that arrived while it
\* was subscribed, once each.
C5_ReplayExactlyOnce ==
  rp.sub # "none" => rp.delivered = Eligible(BeforeSub) \o AfterSub

\* C5 (amended): the same, except that only the most recent MAX allow-listed
\* frames that arrived before the subscription are replayed; with at most MAX
\* of them, every one is delivered exactly once and in order.
C5_ReplayLastMax ==
  rp.sub # "none" => rp.delivered = LastN(Eligible(BeforeSub), MAX) \o AfterSub

C5_Witness ==
  /\ rp.sub = "on"
  /\ Len(Eligible(BeforeSub)) >= 2
  /\ Len(Eligible(BeforeSub)) <= MAX
  /\ Len(AfterSub) >= 2
  /\ rp.delivered = Eligible(BeforeSub) \o AfterSub

(***************************************************************************)
(* SpecAuth: the handshake of the two profiles, up to the first transfer   *)
(* frame.  Side "A" is the sender, side "B" the receiver.  Absent values   *)
(* (null, undefined) are the string "none".                                *)
(***************************************************************************)
Sides == {"A", "B"}

Other(X) == IF X = "A" THEN "B" ELSE "A"

\* the certificate fingerprint of each endpoint of the secure channel
LocalFp(X) == IF X = "A" THEN "fpA" ELSE "fpB"

\* rtc.getRemoteFingerprint(): the endpoint the channel really terminates at
LiveRemote(X, mitm) == IF mitm THEN "fpM" ELSE LocalFp(Other(X))

\* maybeGetFingerprints: both fingerprints within the timeout, or null
maybeGetFingerprints(lf, rf) ==
  IF lf # "none" /\ rf # "none" THEN [local |-> lf, remote |-> rf]
  ELSE [local |-> "none", remote |-> "none"]

\* confirmPrompt: true exactly on y / yes
confirmPrompt(ans) == ans = "yes"

\* waitConfirm of dtlsAuthSender / dtlsAuthReceiver
dtlsWaitConfirm(assumeYes, ans) == assumeYes \/ confirmPrompt(ans)

\* confirmSAS of the post-quantum profile: returns, or throws
confirmSASNeverThrows(assumeYes, ans) == "ok"

confirmSAS(assumeYes, ans) ==
  IF assumeYes THEN "ok"
  ELSE IF ans = "notty" THEN "throw"
  ELSE IF ans = "yes" THEN "ok"
  ELSE "throw"

\* waitConfirm of handshakeSender / handshakeReceiver
pqWaitConfirm == TRUE

\* onDone of dtlsAuthSender / dtlsAuthReceiver: the fingerprint comparison
dtlsOnDone(fpLocal, msg, fpRemoteNow) ==
  IF fpLocal # "none" /\ msg # "none"
  THEN IF fpRemoteNow = "none" \/ msg # fpRemoteNow THEN "reject" ELSE "resolve"
  ELSE "resolve"

\* the authentication library: the counterpart's published message as it
\* reaches this side (a relay in the middle may substitute its own)
authDelivered(pub, mitm) == IF mitm THEN {pub, "fpM"} ELSE {pub}

\* the authentication library: it awaits both hooks; a throwing onSAS or a
\* false waitConfirm ends in onError, anything else in onDone
authOutcome(onSAS, confirm) ==
  IF onSAS = "ok" /\ confirm THEN "done" ELSE "error"

SideInit ==
  [st |-> "init", fpLocal |-> "none", pub |-> "none", msg |-> "none",
   said |-> "none", now |-> "none", err |-> "none", xfer |-> FALSE]

\* the -y flag (au.yes) as the commands hand it to the profile's handshake:
\* defaultSend / defaultRecv get assumeYes: !!opts.yes, pqSend / pqRecv are
\* called without it
AssumeYes(X) == IF au.mode = "pq" THEN FALSE ELSE au.yes[X]

recvSubscribe(r, isClosed) ==
  [r EXCEPT !.pc = "recv", !.subscribed = TRUE, !.closeSub = ~isClosed]

\* the side's transfer after the handshake promise settled, entered even
\* when the handshake was rejected
AfterAuthIgnoringOutcome(X, ok) ==
  /\ sx' = IF X = "A" /\ au.mode = "dtls"
           THEN [sx EXCEPT !.pc = "authed"]
           ELSE sx
  /\ rx' = IF X = "B" /\ au.mode = "dtls"
           THEN recvSubscribe(rx, closed) ELSE rx
  /\ cmd' = cmd

\* the side's transfer after the handshake promise settled
AfterAuth(X, ok) ==
  /\ sx' = IF X = "A" /\ au.mode = "dtls"
           THEN [sx EXCEPT !.pc = IF ok THEN "authed" ELSE "failed"]
           ELSE sx
  /\ rx' = IF X = "B" /\ au.mode = "dtls" /\ ok
           THEN recvSubscribe(rx, closed) ELSE rx
  /\ cmd' = IF X = "B" /\ ~ok
            THEN [cmd EXCEPT !.state = "failed", !.err = "auth"] ELSE cmd

\* the side gathers what it publishes and creates its auth object
AuthBegin(X) ==
  /\ au[X].st = "init"
  /\ \E lf \in {"none", LocalFp(X)} : \E rf \in {"none", LiveRemote(X, au.mitm)} :
       LET fps == maybeGetFingerprints(lf, rf)
           fpLocal == IF au.mode = "dtls" THEN fps.local ELSE "none"
           pub == IF au.mode = "dtls" THEN fpLocal
                  ELSE IF X = "A" THEN "spki" ELSE "kem"
       IN au' = [au EXCEPT ![X].st = "exchange", ![X].fpLocal = fpLocal,
                           ![X].pub = pub]
  /\ UNCHANGED <<sx, chan, closed, rx, sink, tracker, back, cmd, hist, rp, md, wt, fsk, tp, td, bk>>

\* the library has the counterpart's message and shows the SAS (onSAS)
AuthSAS(X) ==
  /\ au[X].st = "exchange"
  /\ au[Other(X)].st # "init"
  /\ \E m \in authDelivered(au[Other(X)].pub, au.mitm) :
       au' = [au EXCEPT ![X].st = "sas", ![X].msg = m]
  /\ UNCHANGED <<sx, chan, closed, rx, sink, tracker, back, cmd, hist, rp, md, wt, fsk, tp, td, bk>>

\* the confirmation hooks run with the user's answer
AuthConfirm(X) ==
  /\ au[X].st = "sas"
  /\ \E ans \in (IF au.mode = "pq" THEN {"yes", "no", "notty"} ELSE {"yes", "no"}) :
       LET onSAS == IF au.mode = "pq" THEN confirmSAS(AssumeYes(X), ans) ELSE "ok"
           confirm == IF au.mode = "pq" THEN pqWaitConfirm
                      ELSE dtlsWaitConfirm(AssumeYes(X), ans)
           ok == authOutcome(onSAS, confirm) = "done"
       IN /\ au' = [au EXCEPT ![X].st = IF ok THEN "confirmed" ELSE "rejected",
                              ![X].said = ans,
                              ![X].err = IF ok THEN "none" ELSE "confirm"]
          /\ IF ok THEN UNCHANGED <<sx, rx, cmd>> ELSE AfterAuth(X, FALSE)
  /\ UNCHANGED <<chan, closed, sink, tracker, back, hist, rp, md, wt, fsk, tp, td, bk>>

\* onDone: the fingerprint comparison of the direct profile, then resolve
AuthDone(X) ==
  /\ au[X].st = "confirmed"
  /\ \E now \in {"none", LiveRemote(X, au.mitm)} :
       LET r == IF au.mode = "dtls"
                THEN dtlsOnDone(au[X].fpLocal, au[X].msg, now) ELSE "resolve"
       IN /\ au' = [au EXCEPT ![X].st = IF r = "resolve" THEN "ok" ELSE "rejected",
                              ![X].now = now,
                              ![X].err = IF r = "resolve" THEN "none" ELSE "FP_MISMATCH",
                              ![X].xfer = (r = "resolve" /\ au.mode = "pq")]
          /\ AfterAuth(X, r = "resolve")
  /\ UNCHANGED <<chan, closed, sink, tracker, back, hist, rp, md, wt, fsk, tp, td, bk>>

\* onError: the library gave up waiting for the counterpart
AuthError(X) ==
  /\ au[X].st \in {"exchange", "sas"}
  /\ au' = [au EXCEPT ![X].st = "rejected", ![X].err = "timeout"]
  /\ AfterAuth(X, FALSE)
  /\ UNCHANGED <<chan, closed, sink, tracker, back, hist, rp, md, wt, fsk, tp, td, bk>>

InitAuth ==
  /\ \E t \in {NInt(1), NInt(0)} :
       sx = [SxIdle EXCEPT !.pc = "auth", !.source = <<<<7>>>>, !.total = t]
  /\ chan = <<>>
  /\ closed = FALSE
  /\ rx = RxInit
  /\ sink = SinkInit
  /\ tracker = TrackerInit
  /\ back = <<>>
  /\ cmd = CmdInit
  /\ hist = HistInit
  /\ rp = RpIdle
  /\ \E mode \in {"dtls", "pq"} : \E mitm \in BOOLEAN :
     \E yes \in [Sides -> BOOLEAN] :
       au = [mode |-> mode, mitm |-> mitm, yes |-> yes,
             A |-> SideInit, B |-> SideInit]
  /\ md = MdIdle
  /\ bk = BkIdle
  /\ td = TdIdle
  /\ tp = TpIdle
  /\ fsk = FskIdle
  /\ wt = WtIdle

NextAuth ==
  \/ \E X \in Sides : AuthBegin(X)
  \/ \E X \in Sides : AuthSAS(X)
  \/ \E X \in Sides : AuthConfirm(X)
  \/ \E X \in Sides : AuthDone(X)
  \/ \E X \in Sides : AuthError(X)
  \/ SendStart
  \/ SendReject

SpecAuth == InitAuth /\ [][NextAuth]_vars

\* the side's transfer has started
Started(X) ==
  \/ au[X].xfer
  \/ X = "A" /\ sx.pc \in {"authed", "stream", "fin", "flush", "done"}
  \/ X = "A" /\ sx.log # <<>>
  \/ X = "B" /\ rx.subscribed

\* C7: in the direct profile a side that had fingerprints completes its
\* handshake only if the fingerprint the counterpart published equals the
\* channel's live remote fingerprint at confirmation time; otherwise it
\* rejects with the fingerprint-mismatch error and sends no transfer frame.
C7_FingerprintFailClosed ==
  \A X \in Sides :
    (au.mode = "dtls" /\ au[X].fpLocal # "none" /\ au[X].st \in {"ok", "rejected"}
       /\ au[X].err \notin {"confirm", "timeout"}) =>
      IF au[X].msg # "none" /\ au[X].msg = au[X].now
      THEN au[X].st = "ok"
      ELSE au[X].st = "rejected" /\ au[X].err = "FP_MISMATCH" /\ ~Started(X)

\* C8: in either profile, when the SAS confirmation of a side is rejected
\* (the user is asked and does not answer yes), that side's handshake fails
\* and its transfer does not start.
C8_SasRejectionFails ==
  \A X \in Sides :
    (au.mode \in {"dtls", "pq"} /\ ~AssumeYes(X) /\ au[X].said \in {"no", "notty"}) =>
      (au[X].st = "rejected" /\ ~Started(X))

C8_Witness ==
  /\ au.mode = "pq"
  /\ ~AssumeYes("B")
  /\ au["B"].said = "no"
  /\ au["B"].st = "rejected"
  /\ au["A"].st = "ok"

(***************************************************************************)
(* SpecMode: how the two commands choose the handshake profile.  Codes     *)
(* are sequences of characters; the rendezvous service maps an issued code *)
(* to the appID of the session.                                            *)
(***************************************************************************)
CodeSpace ==
  {<<"a", "b">>, <<"a", "b", "p", "q">>, <<"a", "-">>, <<"7", "e">>}

Seps == {".", "-", "+", "_"}

\* the /i flag of the suffix pattern
lower(c) == IF c = "P" THEN "p" ELSE IF c = "Q" THEN "q" ELSE c

\* s.match(/^(.*?)(?:[.\-+_])?pq$/i): the clean code and the profile flag
parseModeFromCode(s) ==
  IF Len(s) >= 2 /\ lower(s[Len(s) - 1]) = "p" /\ lower(s[Len(s)]) = "q"
  THEN LET base == Take(s, Len(s) - 2)
       IN  [pq |-> TRUE,
            code |-> IF base # <<>> /\ base[Len(base)] \in Seps
                     THEN Take(base, Len(base) - 1) ELSE base]
  ELSE [pq |-> FALSE, code |-> s]

\* opts.pq ? `${code}-pq` : code
displayCode(code, pq) == IF pq THEN code \o <<"-", "p", "q">> ELSE code

\* the appID the rendezvous service ties to a code it issued
AppOf(code) == <<"#">> \o code

\* an appID agreed out of band and passed with --app
AppGiven == <<"#", "u">>

\* send.js run: if (opts.pq) pqSend(...) else defaultSend(...)
sendMode(pq) == IF pq THEN "pq" ELSE "dtls"

\* recv.js run: if (opts.pq === true) mode = "pq"; else mode = "dtls"
recvMode(pq) == IF pq = "true" THEN "pq" ELSE "dtls"

\* what the receiving user may type for a code the sender displayed
Typed(code, shown) ==
  {shown, code, code \o <<"-", "P", "Q">>, code \o <<".", "p", "q">>,
   code \o <<"p", "q">>}

MdInit ==
  [phase |-> "cli", issued |-> {},
   s |-> [pc |-> "cli", pq |-> FALSE, code |-> <<>>, shown |-> <<>>,
          app |-> <<>>, mode |-> "none"],
   r |-> [pc |-> "cli", pq |-> "undefined", typed |-> <<>>, app |-> <<>>,
          mode |-> "none"]]

\* nt send --app <uuid> [--pq]
SendCliApp ==
  /\ md.s.pc = "cli"
  /\ \E pq \in BOOLEAN :
       md' = [md EXCEPT !.s.pc = "run", !.s.pq = pq, !.s.app = AppGiven]
  /\ UNCHANGED <<xferVars, rp, au, wt, fsk, tp, td, bk>>

\* nt send [--pq]: a code is created and displayed
SendCliCode ==
  /\ md.s.pc = "cli"
  /\ \E pq \in BOOLEAN : \E code \in CodeSpace :
       md' = [md EXCEPT !.s.pc = "run", !.s.pq = pq, !.s.code = code,
                        !.s.shown = displayCode(code, pq),
                        !.s.app = AppOf(code),
                        !.issued = @ \cup {code}]
  /\ UNCHANGED <<xferVars, rp, au, wt, fsk, tp, td, bk>>

\* Send.run joins the session and picks its profile
SendRun ==
  /\ md.s.pc = "run"
  /\ md' = [md EXCEPT !.s.pc = "joined", !.s.mode = sendMode(md.s.pq)]
  /\ UNCHANGED <<xferVars, rp, au, wt, fsk, tp, td, bk>>

\* nt recv --app <uuid>: opts.pq is never set
RecvCliApp ==
  /\ md.r.pc = "cli"
  /\ md.s.pc # "cli"
  /\ md' = [md EXCEPT !.r.pc = "run", !.r.app = md.s.app]
  /\ UNCHANGED <<xferVars, rp, au, wt, fsk, tp, td, bk>>

\* nt recv --code <typed>: the suffix is parsed, the clean code redeemed
RecvCliCode ==
  /\ md.r.pc = "cli"
  /\ md.s.shown # <<>>
  /\ \E typed \in Typed(md.s.code, md.s.shown) :
       LET p == parseModeFromCode(typed)
       IN  md' = [md EXCEPT !.r.typed = typed,
                            !.r.pq = IF p.pq THEN "true" ELSE "false",
                            !.r.pc = IF p.code \in md.issued THEN "run" ELSE "failed",
                            !.r.app = IF p.code \in md.issued THEN AppOf(p.code)
                                      ELSE <<>>]
  /\ UNCHANGED <<xferVars, rp, au, wt, fsk, tp, td, bk>>

\* Recv.run joins the session and picks its profile
RecvRun ==
  /\ md.r.pc = "run"
  /\ md' = [md EXCEPT !.r.pc = "joined", !.r.mode = recvMode(md.r.pq)]
  /\ UNCHANGED <<xferVars, rp, au, wt, fsk, tp, td, bk>>

InitMode ==
  /\ XferIdle
  /\ rp = RpIdle
  /\ au = AuIdle
  /\ md = MdInit
  /\ bk = BkIdle
  /\ td = TdIdle
  /\ tp = TpIdle
  /\ fsk = FskIdle
  /\ wt = WtIdle

NextMode ==
  \/ SendCliApp
  \/ SendCliCode
  \/ SendRun
  \/ RecvCliApp
  \/ RecvCliCode
  \/ RecvRun

SpecMode == InitMode /\ [][NextMode]_vars

\* C9: when both commands have joined the same session, the receiver runs the
\* profile the sender selected.
C9_SameProfile ==
  (md.s.pc = "joined" /\ md.r.pc = "joined" /\ md.s.app = md.r.app) =>
    md.r.mode = md.s.mode

(***************************************************************************)
(* SpecWaits: the waits around a transfer.  A timer is a flag that is set  *)
(* when setTimeout arms it and cleared when it fires; the receiver is the  *)
(* defaultRecv of SpecFrames, the sending command is followed from the     *)
(* return of defaultSend on.                                               *)
(***************************************************************************)
\* send.js run: defaultSend and the flush are over, waitForFinAck starts
SenderFinished ==
  /\ wt.s = "idle"
  /\ wt' = [wt EXCEPT !.s = "finack", !.sTimer = TRUE]
  /\ UNCHANGED <<xferVars, rp, au, md, fsk, tp, td, bk>>

\* a frame from the receiver reaches the sender: the listener of
\* waitForFinAck resolves on a Fin with ok:true of this session
AckArrives ==
  /\ back # <<>>
  /\ ~closed
  /\ LET m == Head(back)
     IN wt' = IF wt.s = "finack" /\ m.type = "ns_fin" /\ m.sessionId = SID /\ m.ok = TRUE
              THEN [wt EXCEPT !.s = "peerclose", !.sTimer = TRUE]
              ELSE wt
  /\ back' = Tail(back)
  /\ UNCHANGED <<sx, chan, closed, rx, sink, tracker, cmd, hist, rp, au, md, fsk, tp, td, bk>>

\* the timer of the sender's current wait fires (3000 ms, then 1500 ms)
SenderTimeout ==
  /\ wt.sTimer
  /\ wt' = IF wt.s = "finack" THEN [wt EXCEPT !.s = "peerclose", !.sTimer = TRUE]
           ELSE [wt EXCEPT !.s = "done", !.sTimer = FALSE]
  /\ UNCHANGED <<xferVars, rp, au, md, fsk, tp, td, bk>>

\* the onClose listener of the sender's current wait runs
SenderSeesClose ==
  /\ closed
  /\ wt.s \in {"finack", "peerclose"}
  /\ wt' = IF wt.s = "finack" THEN [wt EXCEPT !.s = "peerclose", !.sTimer = TRUE]
           ELSE [wt EXCEPT !.s = "done", !.sTimer = FALSE]
  /\ UNCHANGED <<xferVars, rp, au, md, fsk, tp, td, bk>>

\* recv.js run: safeRecv returned, waitForPeerClose(rtc, 1500) starts
RecvWaitPeerClose ==
  /\ cmd.state = "ok"
  /\ wt.r = "idle"
  /\ wt' = [wt EXCEPT !.r = "peerclose", !.rTimer = TRUE]
  /\ UNCHANGED <<xferVars, rp, au, md, fsk, tp, td, bk>>

RecvTimeout ==
  /\ wt.rTimer
  /\ wt' = [wt EXCEPT !.r = "done", !.rTimer = FALSE]
  /\ UNCHANGED <<xferVars, rp, au, md, fsk, tp, td, bk>>

RecvSeesClose ==
  /\ closed
  /\ wt.r = "peerclose"
  /\ wt' = [wt EXCEPT !.r = "done", !.rTimer = FALSE]
  /\ UNCHANGED <<xferVars, rp, au, md, fsk, tp, td, bk>>

\* the channel closes after the receive has settled
ChannelCloseLate ==
  /\ ~closed
  /\ cmd.state # "running"
  /\ closed' = TRUE
  /\ chan' = <<>>
  /\ back' = <<>>
  /\ UNCHANGED <<sx, rx, sink, tracker, cmd, hist, rp, au, md, wt, fsk, tp, td, bk>>

InitWaits == InitFrames

NextWaits ==
  \/ Inject
  \/ RecvStart
  \/ Deliver
  \/ WriteDone
  \/ ChannelClose
  \/ ChannelCloseLate
  \/ SenderFinished
  \/ AckArrives
  \/ SenderTimeout
  \/ SenderSeesClose
  \/ RecvWaitPeerClose
  \/ RecvTimeout
  \/ RecvSeesClose

SpecWaits == InitWaits /\ [][NextWaits]_vars

\* nothing is in flight, no task runs, no timer is armed and the channel has
\* reported no close: whatever still waits now waits for the counterpart
Quiet ==
  /\ chan = <<>>
  /\ back = <<>>
  /\ rx.queue = <<>>
  /\ ~wt.sTimer
  /\ ~wt.rTimer
  /\ ~closed

\* C12: no wait of a transfer depends on the counterpart alone: when nothing
\* is in flight, every timer has fired and no close was reported, the
\* receiver's wait for Fin, the sender's wait for the Fin acknowledgment and
\* both waits for the peer's close have ended.
C12_WaitsEnd ==
  Quiet =>
    /\ ~(rx.pc = "recv" /\ rx.doneP = "pending")
    /\ wt.s \notin {"finack", "peerclose"}
    /\ wt.r # "peerclose"

(***************************************************************************)
(* SpecSink: where the sniffing sink opens its file.  A path is a sequence *)
(* of segments from the root; a segment is a stem, a dedupe number (0 when *)
(* none) and an extension.  A name is what the sender announced: absolute  *)
(* or not, and its segments as path.resolve splits them.                   *)
(***************************************************************************)
Seg(stem, ext) == [stem |-> stem, n |-> 0, ext |-> ext]

DotDot == Seg("..", "")

ATxt == Seg("a", ".txt")

OutDir == <<Seg("out", "")>>

NoName == [abs |-> FALSE, segs |-> <<>>]

\* `nt-${appID}.bin`
FallbackName == [abs |-> FALSE, segs |-> <<Seg("nt-app", ".bin")>>]

AnnouncedNames ==
  { [abs |-> FALSE, segs |-> <<ATxt>>],
    [abs |-> FALSE, segs |-> <<DotDot, ATxt>>],
    [abs |-> FALSE, segs |-> <<DotDot, DotDot, ATxt>>],
    [abs |-> TRUE, segs |-> <<Seg("etc", ""), ATxt>>],
    [abs |-> TRUE, segs |-> <<ATxt>>],
    [abs |-> FALSE, segs |-> <<Seg("sub", ""), ATxt>>],
    [abs |-> FALSE, segs |-> <<Seg("sub", ""), DotDot, ATxt>>],
    [abs |-> FALSE, segs |-> <<DotDot>>] }

\* normalisation of path.resolve / path.join: ".." removes the segment before
RECURSIVE Normalize(_, _)
Normalize(done, rest) ==
  IF rest = <<>> THEN done
  ELSE IF Head(rest) = DotDot
  THEN Normalize(IF done = <<>> THEN done ELSE SubSeq(done, 1, Len(done) - 1), Tail(rest))
  ELSE Normalize(Append(done, Head(rest)), Tail(rest))

\* path.resolve(targetDir, baseName)
pathResolve(dir, name) ==
  IF name.abs THEN Normalize(<<>>, name.segs) ELSE Normalize(dir, name.segs)

\* path.join(targetDir, `${stem}-${i}${ext}`) for the leaf of baseName
dedupeCandidate(dir, name, i) ==
  LET leaf == name.segs[Len(name.segs)]
  IN  Append(dir, [stem |-> leaf.stem, n |-> i, ext |-> leaf.ext])

\* while (fs.existsSync(p)) p = path.join(targetDir, `${stem}-${i++}${ext}`)
RECURSIVE firstFree(_, _, _, _)
firstFree(dir, name, exists, i) ==
  IF dedupeCandidate(dir, name, i) \in exists
  THEN firstFree(dir, name, exists, i + 1)
  ELSE dedupeCandidate(dir, name, i)

\* resolveTargetPath(baseName)
resolveTargetPathIgnoreOverwrite(dir, name, exists, overwrite) ==
  LET p == pathResolve(dir, name)
  IN  IF p \in exists THEN firstFree(dir, name, exists, 1) ELSE p

resolveTargetPath(dir, name, exists, overwrite) ==
  LET p == pathResolve(dir, name)
  IN  IF ~overwrite /\ p \in exists THEN firstFree(dir, name, exists, 1) ELSE p

\* the files the bytes of one sink.write go to: the one stream of the sink
writeTargetsExtracting(f, chunk) ==
  IF chunk.entry = NoName THEN {f.filePath} ELSE {pathResolve(f.dir, chunk.entry)}

writeTargets(f, chunk) == {f.filePath}

\* what a sink.write may carry: plain bytes, or an archive entry with its path
PayloadChunks ==
  { [entry |-> NoName],
    [entry |-> [abs |-> FALSE, segs |-> <<ATxt>>]],
    [entry |-> [abs |-> FALSE, segs |-> <<DotDot, DotDot, Seg("etc", ""), Seg("passwd", "")>>]] }

MaxSinkWrites == 2

\* the totals an Init may announce to the sink
AnnouncedTotals == {1, 2}

Dirs == {<<>>, OutDir, <<Seg("etc", "")>>}

PreExisting ==
  { Append(OutDir, ATxt),
    Append(OutDir, [stem |-> "a", n |-> 1, ext |-> ".txt"]),
    <<ATxt>> }

FskInit(pre, overwrite) ==
  [pc |-> "fresh", dir |-> OutDir, overwrite |-> overwrite,
   files |-> pre \cup Dirs, old |-> pre, atResolve |-> {},
   desiredName |-> NoName, label |-> NoName, filePath |-> <<>>,
   flags |-> "", written |-> {}, entries |-> {}, writes |-> 0, announced |-> 0]

\* sink.info({ name }): the name of the MetaHeader
SinkInfoName ==
  /\ fsk.pc \in {"fresh", "pending", "open"}
  /\ \E name \in AnnouncedNames : fsk' = [fsk EXCEPT !.desiredName = name]
  /\ UNCHANGED <<xferVars, rp, au, md, wt, tp, td, bk>>

\* sink.info({ totalBytes }): the total of the Init
SinkInfoTotal ==
  /\ fsk.pc \in {"fresh", "pending", "open"}
  /\ \E n \in AnnouncedTotals : fsk' = [fsk EXCEPT !.announced = n]
  /\ fsk'.announced # fsk.announced
  /\ UNCHANGED <<xferVars, rp, au, md, wt, tp, td, bk>>

\* the first sink.write: startIfNeeded picks the label and the path and
\* creates the write stream, which opens the file later
SinkFirstWrite ==
  /\ fsk.pc = "fresh"
  /\ \E chunk \in PayloadChunks :
       LET label == IF fsk.desiredName # NoName THEN fsk.desiredName ELSE FallbackName
           p == resolveTargetPath(fsk.dir, label, fsk.files, fsk.overwrite)
       IN fsk' = [fsk EXCEPT !.pc = "pending", !.label = label, !.filePath = p,
                             !.atResolve = fsk.files,
                             !.flags = IF fsk.overwrite THEN "w" ELSE "wx",
                             !.entries = IF chunk.entry = NoName THEN @ ELSE @ \cup {chunk.entry},
                             !.writes = 1]
  /\ UNCHANGED <<xferVars, rp, au, md, wt, tp, td, bk>>

\* another process creates a file in the meantime
ExternalCreate ==
  /\ fsk.pc = "pending"
  /\ fsk.filePath \notin fsk.files
  /\ fsk' = [fsk EXCEPT !.files = @ \cup {fsk.filePath}, !.old = @ \cup {fsk.filePath}]
  /\ UNCHANGED <<xferVars, rp, au, md, wt, tp, td, bk>>

\* the stream opens its file: "wx" fails on an existing path, "w" truncates;
\* a missing parent directory or a directory at the path fails the open
SinkOpen ==
  /\ fsk.pc = "pending"
  /\ LET p == fsk.filePath
         parentOk == p # <<>> /\ SubSeq(p, 1, Len(p) - 1) \in Dirs
         fails == \/ ~parentOk
                  \/ p \in Dirs
                  \/ fsk.flags = "wx" /\ p \in fsk.files
     IN fsk' = IF fails THEN [fsk EXCEPT !.pc = "error"]
               ELSE [fsk EXCEPT !.pc = "open", !.files = @ \cup {p}, !.old = @ \ {p},
                                !.written = @ \cup writeTargets(fsk, [entry |-> NoName])]
  /\ UNCHANGED <<xferVars, rp, au, md, wt, tp, td, bk>>

\* a later sink.write whose startIfNeeded does not return at `if (started)`
SinkWriteMoreRestarting ==
  /\ fsk.pc = "open"
  /\ fsk.writes < MaxSinkWrites
  /\ \E chunk \in PayloadChunks :
       LET label == IF fsk.desiredName # NoName THEN fsk.desiredName ELSE FallbackName
           p == resolveTargetPath(fsk.dir, label, fsk.files, fsk.overwrite)
       IN fsk' = [fsk EXCEPT !.label = label, !.filePath = p,
                             !.written = @ \cup {p},
                             !.entries = IF chunk.entry = NoName THEN @ ELSE @ \cup {chunk.entry},
                             !.writes = @ + 1]
  /\ UNCHANGED <<xferVars, rp, au, md, wt, tp, td, bk>>

\* a later sink.write
SinkWriteMore ==
  /\ fsk.pc = "open"
  /\ fsk.writes < MaxSinkWrites
  /\ \E chunk \in PayloadChunks :
       fsk' = [fsk EXCEPT !.written = @ \cup writeTargets(fsk, chunk),
                          !.entries = IF chunk.entry = NoName THEN @ ELSE @ \cup {chunk.entry},
                          !.writes = @ + 1]
  /\ UNCHANGED <<xferVars, rp, au, md, wt, tp, td, bk>>

InitSink ==
  /\ XferIdle
  /\ rp = RpIdle
  /\ au = AuIdle
  /\ md = MdIdle
  /\ bk = BkIdle
  /\ td = TdIdle
  /\ tp = TpIdle
  /\ wt = WtIdle
  /\ \E pre \in SUBSET PreExisting : \E overwrite \in BOOLEAN :
       fsk = FskInit(pre, overwrite)

NextSink ==
  \/ SinkInfoName
  \/ SinkInfoTotal
  \/ SinkFirstWrite
  \/ ExternalCreate
  \/ SinkOpen
  \/ SinkWriteMore

SpecSink == InitSink /\ [][NextSink]_vars

\* the path lies strictly below the directory
Inside(p, dir) == Len(p) > Len(dir) /\ SubSeq(p, 1, Len(dir)) = dir

\* C13: whatever filename the sender announced, the file the receiver opens
\* lies inside the receiver's output directory.
C13_OpensInsideOutDir ==
  fsk.pc = "open" => Inside(fsk.filePath, fsk.dir)

\* the announced archive name is a plain leaf name, as the send command makes it
LeafLabel == ~fsk.label.abs /\ Len(fsk.label.segs) = 1 /\ fsk.label.segs[1] # DotDot

EscapingEntries == {e \in fsk.entries : ~Inside(pathResolve(fsk.dir, e), fsk.dir)}

C15_DedupeOrOverwrite ==
  /\ (fsk.pc \in {"pending", "error"} /\ ~fsk.overwrite) =>
       fsk.filePath \notin fsk.atResolve
  /\ fsk.pc = "open" =>
    LET orig == pathResolve(fsk.dir, fsk.label)
    IN IF fsk.overwrite
       THEN fsk.filePath = orig /\ fsk.filePath \notin fsk.old
       ELSE /\ fsk.filePath \notin fsk.atResolve
            /\ fsk.filePath \notin fsk.old
            /\ IF orig \notin fsk.atResolve THEN fsk.filePath = orig
               ELSE \E i \in 1..(Cardinality(fsk.atResolve) + 1) :
                      /\ fsk.filePath = dedupeCandidate(fsk.dir, fsk.label, i)
                      /\ \A j \in 1..(i - 1) :
                           dedupeCandidate(fsk.dir, fsk.label, j) \in fsk.atResolve

C15_Witness ==
  /\ fsk.pc = "open"
  /\ ~fsk.overwrite
  /\ pathResolve(fsk.dir, fsk.label) \in fsk.atResolve
  /\ fsk.filePath = dedupeCandidate(fsk.dir, fsk.label, 2)

(***************************************************************************)
(* SpecTar: a multi-path send.  makeTarPack scans the paths, computes the   *)
(* archive size, and streams the entries into the pack stream while         *)
(* defaultSend reads it; the receiver is the one of Spec.                   *)
(***************************************************************************)
MaxItems == 2

\* the block size of the archive format, as makeTarPack writes it
BLOCK == 512

\* what collect() meets under the given paths: regular files, some of them
\* matching an exclude pattern
FileSizes == {0, 1, BLOCK}

ScanItems ==
  {[size |-> n, excl |-> FALSE] : n \in FileSizes} \cup {[size |-> 1, excl |-> TRUE]}

collect(items) == SelectSeq(items, LAMBDA it : ~it.excl)

\* Math.ceil(size / 512)
mathCeilDiv(a, b) == (a + b - 1) \div b

RECURSIVE reduceSizesNoPadding(_)
reduceSizesNoPadding(entries) ==
  IF entries = <<>> THEN 0
  ELSE BLOCK + Head(entries).size + reduceSizesNoPadding(Tail(entries))

totalSizeTarNoPadding(entries) == reduceSizesNoPadding(entries) + 2 * BLOCK

RECURSIVE reduceSizes(_)
reduceSizes(entries) ==
  IF entries = <<>> THEN 0
  ELSE BLOCK + mathCeilDiv(Head(entries).size, BLOCK) * BLOCK
         + reduceSizes(Tail(entries))

\* entries.reduce(...) + 1024
totalSizeTarOf(entries) == reduceSizes(entries) + 2 * BLOCK

Zeros(n) == [i \in 1..n |-> 0]

\* the pack stream: one header block per entry, the payload, padding up to
\* the next block boundary, and two blocks at the end of the archive
packEntryHeader == Zeros(BLOCK)

overflow(size) == (BLOCK - (size % BLOCK)) % BLOCK

packEndOfArchive == Zeros(2 * BLOCK)

\* `${stem}.tar`
TarName == <<116>>

TpInit(items) ==
  [pc |-> "scan", items |-> items, entries |-> <<>>, totalSizeTar |-> 0,
   cur |-> 1, emitted |-> 0]

\* makeTarPack up to its return, and run's use of the result
MakeTarPack ==
  /\ tp.pc = "scan"
  /\ LET entries == collect(tp.items)
         totalSizeTar == totalSizeTarOf(entries)
     IN /\ tp' = [tp EXCEPT !.pc = "stream", !.entries = entries,
                            !.totalSizeTar = totalSizeTar]
        /\ sx' = [sx EXCEPT !.pc = "run", !.total = NInt(totalSizeTar),
                            !.name = TarName]
  /\ UNCHANGED <<chan, closed, rx, sink, tracker, back, cmd, hist, rp, au, md, wt, fsk, td, bk>>

\* one entry: pack.entry({ name, size }, cb) writes the header, rs.pipe(entry)
\* the file's bytes (one read, the files are shorter than CHUNK), the entry
\* ends with the padding and the callback resolves the promise
PackEntry ==
  /\ tp.pc = "stream" /\ tp.cur <= Len(tp.entries)
  /\ LET size == tp.entries[tp.cur].size
         out == SelectSeq(<<packEntryHeader, Zeros(size), Zeros(overflow(size))>>,
                          LAMBDA u8 : Len(u8) > 0)
     IN /\ sx' = [sx EXCEPT !.source = @ \o out]
        /\ tp' = [tp EXCEPT !.emitted = @ + Len(Concat(out)), !.cur = @ + 1]
  /\ UNCHANGED <<chan, closed, rx, sink, tracker, back, cmd, hist, rp, au, md, wt, fsk, td, bk>>

\* pack.finalize()
PackFinalize ==
  /\ tp.pc = "stream" /\ tp.cur > Len(tp.entries)
  /\ sx' = [sx EXCEPT !.source = Append(@, packEndOfArchive), !.ended = TRUE]
  /\ tp' = [tp EXCEPT !.emitted = @ + 2 * BLOCK, !.pc = "done"]
  /\ UNCHANGED <<chan, closed, rx, sink, tracker, back, cmd, hist, rp, au, md, wt, fsk, td, bk>>

\* rs.on("error", reject) after the header was written: the catch destroys
\* the pack stream with the error
PackReadError ==
  /\ tp.pc = "stream" /\ tp.cur <= Len(tp.entries)
  /\ sx' = [sx EXCEPT !.source = Append(@, packEntryHeader), !.srcErr = TRUE]
  /\ tp' = [tp EXCEPT !.emitted = @ + BLOCK, !.pc = "error"]
  /\ UNCHANGED <<chan, closed, rx, sink, tracker, back, cmd, hist, rp, au, md, wt, fsk, td, bk>>

\* defaultSend's for await over the destroyed stream throws: no Fin is sent
SendThrow ==
  /\ sx.pc = "stream"
  /\ sx.srcErr
  /\ sx' = [sx EXCEPT !.pc = "failed"]
  /\ UNCHANGED <<chan, closed, rx, sink, tracker, back, cmd, hist, rp, au, md, wt, fsk, tp, td, bk>>

InitTar ==
  /\ sx = [SxIdle EXCEPT !.ended = FALSE]
  /\ chan = <<>>
  /\ closed = FALSE
  /\ rx = RxInit
  /\ sink = SinkInit
  /\ tracker = TrackerInit
  /\ back = <<>>
  /\ cmd = CmdInit
  /\ hist = HistInit
  /\ rp = RpIdle
  /\ au = AuIdle
  /\ md = MdIdle
  /\ bk = BkIdle
  /\ td = TdIdle
  /\ wt = WtIdle
  /\ fsk = FskIdle
  /\ \E items \in SeqsUpTo(ScanItems, MaxItems) : tp = TpInit(items)

NextTar ==
  \/ MakeTarPack
  \/ RunAccept
  \/ PackEntry
  \/ PackFinalize
  \/ PackReadError
  \/ SendStart
  \/ SendChunk
  \/ SendFin
  \/ SendThrow
  \/ SendFlush
  \/ RecvStart
  \/ Deliver
  \/ WriteDone
  \/ ChannelClose

SpecTar == InitTar /\ [][NextTar]_vars

\* the Init frame the sender put on the channel
AnnouncedInit == SelectSeq(sx.log, LAMBDA m : m.type = "ns_init")

\* C16: once the pack stream has ended, the size computed before streaming
\* equals the number of bytes the stream emitted, and it is the totalBytes
\* of the Init frame sent to the receiver.
C16_TarSizeExact ==
  tp.pc = "done" =>
    /\ tp.totalSizeTar = tp.emitted
    /\ tp.emitted = Len(Concat(sx.source))
    /\ \A k \in 1..Len(AnnouncedInit) : AnnouncedInit[k].totalBytes = NInt(tp.emitted)

C16_Witness ==
  /\ tp.pc = "done"
  /\ Len(tp.entries) >= 2
  /\ \E k \in 1..Len(tp.entries) : tp.entries[k].size % BLOCK # 0
  /\ AnnouncedInit # <<>>
  /\ sx.pc = "done"

\* a Fin with ok:true that the sender put on the channel
SentFinOk == \E k \in 1..Len(sx.log) : sx.log[k].type = "ns_fin" /\ sx.log[k].ok

\* C17: when reading a file failed while the archive was streamed, the sender
\* has sent no Fin with ok:true and the receive command has not ended in
\* success.
C17_ReadFailureFails ==
  tp.pc = "error" => (~SentFinOk /\ cmd.state # "ok")

(***************************************************************************)
(* SpecFaulty: the transfer of Spec with a truthful total, over a channel   *)
(* that may reorder, duplicate or lose Data frames in flight.               *)
(***************************************************************************)
MaxFaults == 1

IsData(m) == m.type = "ns_data"

\* two neighbouring Data frames arrive in the other order
SwapData ==
  /\ ~closed
  /\ hist.faults < MaxFaults
  /\ \E k \in 1..(Len(chan) - 1) :
       /\ IsData(chan[k]) /\ IsData(chan[k + 1])
       /\ chan[k] # chan[k + 1]
       /\ chan' = [chan EXCEPT ![k] = chan[k + 1], ![k + 1] = chan[k]]
  /\ hist' = [hist EXCEPT !.faults = @ + 1]
  /\ UNCHANGED <<sx, closed, rx, sink, tracker, back, cmd, rp, au, md, wt, fsk, tp, td, bk>>

\* a Data frame arrives twice
DupData ==
  /\ ~closed
  /\ hist.faults < MaxFaults
  /\ \E k \in 1..Len(chan) :
       /\ IsData(chan[k])
       /\ chan' = SubSeq(chan, 1, k) \o <<chan[k]>> \o SubSeq(chan, k + 1, Len(chan))
  /\ hist' = [hist EXCEPT !.faults = @ + 1]
  /\ UNCHANGED <<sx, closed, rx, sink, tracker, back, cmd, rp, au, md, wt, fsk, tp, td, bk>>

\* a Data frame never arrives
DropData ==
  /\ ~closed
  /\ hist.faults < MaxFaults
  /\ \E k \in 1..Len(chan) :
       /\ IsData(chan[k])
       /\ chan' = SubSeq(chan, 1, k - 1) \o SubSeq(chan, k + 1, Len(chan))
  /\ hist' = [hist EXCEPT !.faults = @ + 1]
  /\ UNCHANGED <<sx, closed, rx, sink, tracker, back, cmd, rp, au, md, wt, fsk, tp, td, bk>>

InitFaulty ==
  /\ \E B \in Payloads : \E src \in Splits(B, MaxChunks) : \E nm \in Names :
       sx = [SxIdle EXCEPT !.pc = "authed", !.source = src,
                           !.total = NInt(Len(B)), !.name = nm]
  /\ chan = <<>>
  /\ closed = FALSE
  /\ rx = RxInit
  /\ sink = SinkInit
  /\ tracker = TrackerInit
  /\ back = <<>>
  /\ cmd = CmdInit
  /\ hist = HistInit
  /\ rp = RpIdle
  /\ au = AuIdle
  /\ md = MdIdle
  /\ bk = BkIdle
  /\ td = TdIdle
  /\ wt = WtIdle
  /\ fsk = FskIdle
  /\ tp = TpIdle

NextFaulty ==
  \/ SendStart
  \/ SendChunk
  \/ SendFin
  \/ SendFlush
  \/ RecvStart
  \/ Deliver
  \/ WriteDone
  \/ SwapData
  \/ DupData
  \/ DropData

SpecFaulty == InitFaulty /\ [][NextFaulty]_vars

\* C18: when Data frames of the session reached the receiver reordered,
\* duplicated or with one missing, the receive command does not end in
\* success with an output that differs from what the sender streamed (stated
\* for receivers subscribed before the first frame and payloads that do not
\* begin with the header magic).
C18_DisorderFails ==
  (hist.faults > 0 /\ ~hist.missed /\ ~stripMetaHeader(Payload).found) =>
    ~(cmd.state = "ok" /\ sink.data # Payload)

(***************************************************************************)
(* SpecPq: one session with a truthful total in either mode.  In the PQ     *)
(* mode pqSend prepends the MetaHeader to the source and hands source and   *)
(* totalBytes to the transfer primitive; pqRecv hands it the stripping      *)
(* sink.  The primitive is a black box with the contract of the direct      *)
(* transfer: Init, one Data frame per chunk of its source, Fin with         *)
(* ok = (sent = totalBytes); its receiver counts what it hands to the sink. *)
(***************************************************************************)
Modes == {"direct", "pq"}

\* prependHeader(source, headerU8)
prependHeader(source, headerU8) ==
  IF headerU8 = <<>> THEN source ELSE <<headerU8>> \o source

\* const header = name ? buildMetaHeader(name) : null
headerOf(name) == IF name # <<>> THEN buildMetaHeader(name) ELSE <<>>

\* what pqSend hands to sendFileWithAuth
pqSendArgs(src, total, name) ==
  [source |-> prependHeader(src, headerOf(name)), total |-> NumberOrZero(total),
   name |-> <<>>]

\* what run hands to defaultSend
defaultSendArgs(src, total, name) == [source |-> src, total |-> total, name |-> name]

InitPq ==
  /\ \E B \in Payloads : \E src \in Splits(B, MaxChunks) : \E nm \in Names :
     \E mode \in Modes :
       LET args == IF mode = "pq" THEN pqSendArgs(src, NInt(Len(B)), nm)
                   ELSE defaultSendArgs(src, NInt(Len(B)), nm)
       IN /\ sx = [SxIdle EXCEPT !.pc = "authed", !.source = args.source,
                                 !.total = args.total, !.name = args.name]
          /\ rx = [RxInit EXCEPT !.pq = (mode = "pq")]
          /\ hist = [HistInit EXCEPT !.hdr = Len(headerOf(nm))]
  /\ chan = <<>>
  /\ closed = FALSE
  /\ sink = SinkInit
  /\ tracker = TrackerInit
  /\ back = <<>>
  /\ cmd = CmdInit
  /\ rp = RpIdle
  /\ au = AuIdle
  /\ md = MdIdle
  /\ bk = BkIdle
  /\ td = TdIdle
  /\ wt = WtIdle
  /\ fsk = FskIdle
  /\ tp = TpIdle

NextPq ==
  \/ SendStart
  \/ SendChunk
  \/ SendFin
  \/ SendFlush
  \/ RecvStart
  \/ Deliver
  \/ WriteDone

SpecPq == InitPq /\ [][NextPq]_vars

\* the bytes of file content of the session
ContentBytes == Len(Payload) - (IF rx.pq THEN hist.hdr ELSE 0)

\* C19: in a session that carries a MetaHeader, in either mode, the total
\* the receiver was told and the byte count it compares against it at Fin
\* both equal the number of content bytes; the header bytes are in neither.
C19_HeaderNotCounted ==
  (hist.by = "fin" /\ ~hist.missed /\ hist.hdr > 0) =>
    /\ hist.announced = NInt(ContentBytes)
    /\ hist.written = ContentBytes

(***************************************************************************)
(* The -y flag, under SpecAuth.                                            *)
(***************************************************************************)
\* C20: on a side started with --yes the SAS confirmation is accepted by
\* itself in both profiles: whatever an interactive prompt would have been
\* answered, and with or without a terminal, the confirmation does not fail.
C20_YesAutoAccepts ==
  \A X \in Sides :
    (au.mode \in {"dtls", "pq"} /\ au.yes[X] /\ au[X].said # "none") =>
      au[X].err # "confirm"

(***************************************************************************)
(* The receiver's acknowledgment, under SpecFrames.                        *)
(***************************************************************************)
\* C21: a Fin from the receiver is on its way to the sender only when
\* defaultRecv has succeeded: its promise resolved, no sink write enqueued
\* before the completion was triggered is in flight or still queued, and the
\* one frame sent is Fin with ok:true; after a failed receive nothing was sent.
C21_AckOnlyAfterSuccess ==
  /\ back # <<>> =>
       /\ rx.doneP = "resolved"
       /\ \A k \in 1..Len(rx.queue) : rx.queue[k].t = "write" => rx.queue[k].late
       /\ back = <<packStreamFin(SID, TRUE)>>
  /\ rx.doneP \notin {"pending", "resolved"} => back = <<>>

C21_Witness ==
  /\ back # <<>>
  /\ hist.by = "fin"
  /\ sink.written > 1
  /\ hist.wfail = 0

(***************************************************************************)
(* The write queue of defaultRecv, under Spec.                             *)
(***************************************************************************)
IsPrefix(s, t) == Len(s) <= Len(t) /\ SubSeq(t, 1, Len(s)) = s

\* C22: the sink writes run one at a time and in arrival order (what the
\* sink was handed is a prefix of what the sender streamed), and the
\* completion check made on Fin or on close ran when no write was in flight:
\* with no failed write, the written count it read is all the sink was handed.
C22_WritesSerialized ==
  /\ rx.inflight => (rx.queue # <<>> /\ Head(rx.queue).t = "write")
  /\ (sx.name # <<>> /\ ~hist.missed) => IsPrefix(sink.data, Payload)
  /\ (hist.by # "none" /\ hist.wfail = 0) => hist.written = sink.written

C22_Witness ==
  /\ hist.by = "fin"
  /\ hist.wfail = 0
  /\ hist.written >= 2
  /\ Len(sx.source) >= 2
  /\ sx.name # <<>>
  /\ sink.data = Payload

(***************************************************************************)
(* The frames defaultSend emits, under Spec.                               *)
(***************************************************************************)
FinsSent == SelectSeq(sx.log, LAMBDA m : m.type = "ns_fin")

\* C23: once the source is exhausted and defaultSend has gone on, it has sent
\* exactly one Fin, and that Fin's ok is true exactly when the lengths of the
\* source's chunks add up to the announced totalBytes (the MetaHeader frame
\* is not part of the sum).
C23_OneFinOkIffSizesMatch ==
  /\ sx.pc \in {"flush", "done"} =>
       /\ Len(FinsSent) = 1
       /\ FinsSent[1].ok = (sx.total = NInt(Len(Payload)))
  /\ sx.pc \notin {"flush", "done"} => FinsSent = <<>>

C23_Witness ==
  /\ sx.pc = "done"
  /\ sx.name # <<>>
  /\ Len(sx.source) >= 2
  /\ FinsSent[1].ok

DataSent == SelectSeq(sx.log, LAMBDA m : m.type = "ns_data")

\* C24: the frames of a direct-mode send come in the order Init, then the
\* MetaHeader frame when a name was given, then the payload frames, then Fin
\* as the last one; the Data frames carry the seq numbers 0, 1, 2, ... (the
\* header frame takes 0), and payload frames are never empty, an empty
\* source chunk having produced no frame and used no seq.
C24_FrameOrder ==
  sx.log # <<>> =>
    LET n == Len(sx.log)
        h == IF sx.name # <<>> THEN 1 ELSE 0
        body == [k \in 1..(Len(DataSent) - h) |-> DataSent[k + h].chunk]
    IN /\ sx.log[1].type = "ns_init"
       /\ \A k \in 2..n : sx.log[k].type # "ns_init"
       /\ \A k \in 1..n : sx.log[k].type = "ns_fin" => k = n
       /\ Len(DataSent) >= h
       /\ h = 1 => DataSent[1].chunk = buildMetaHeader(sx.name)
       /\ \A k \in 1..Len(DataSent) : DataSent[k].seq = k - 1
       /\ \A k \in 1..Len(body) : Len(body[k]) > 0
       /\ IsPrefix(Concat(body), Payload)
       /\ FinsSent # <<>> => Concat(body) = Payload

C24_Witness ==
  /\ sx.pc = "done"
  /\ sx.name # <<>>
  /\ Len(DataSent) = 3
  /\ \E k \in 1..Len(sx.source) : sx.source[k] = <<>>

(***************************************************************************)
(* SpecAuthXfer: the handshake of both sides followed by the transfer, in  *)
(* both profiles.                                                          *)
(***************************************************************************)
\* pqSend: after `await handshakeSender(...)` the stream is handed to
\* sendFileWithAuth
pqSendBegin ==
  /\ au.mode = "pq"
  /\ au.A.xfer
  /\ sx.pc = "auth"
  /\ LET args == pqSendArgs(sx.source, sx.total, sx.name)
     IN sx' = [sx EXCEPT !.pc = "authed", !.source = args.source,
                         !.total = args.total, !.name = args.name]
  /\ UNCHANGED <<chan, closed, rx, sink, tracker, back, cmd, hist, rp, au, md, wt, fsk, tp, td, bk>>

\* pqRecv: after `await handshakeReceiver(...)` the wrapped sink is handed to
\* recvFileWithAuth
pqRecvBegin ==
  /\ au.mode = "pq"
  /\ au.B.xfer
  /\ rx.pc = "auth"
  /\ cmd.state = "running"
  /\ rx' = [recvSubscribe(rx, closed) EXCEPT !.pq = TRUE]
  /\ UNCHANGED <<sx, chan, closed, sink, tracker, back, cmd, hist, rp, au, md, wt, fsk, tp, td, bk>>

NextAuthXfer ==
  \/ \E X \in Sides : AuthBegin(X)
  \/ \E X \in Sides : AuthSAS(X)
  \/ \E X \in Sides : AuthConfirm(X)
  \/ \E X \in Sides : AuthDone(X)
  \/ \E X \in Sides : AuthError(X)
  \/ pqSendBegin
  \/ pqRecvBegin
  \/ SendReject
  \/ SendStart
  \/ SendChunk
  \/ SendFin
  \/ SendFlush
  \/ Deliver
  \/ WriteDone

SpecAuthXfer == InitAuth /\ [][NextAuthXfer]_vars

\* the receiver handed at least one byte to its sink
SinkTouched == sink.started \/ sink.data # <<>> \/ rx.inflight \/ rx.written > 0

\* C25: in both profiles the sender has sent no Init, Data or Fin frame and
\* the receiver has written no byte to its sink unless that side's own
\* handshake completed successfully; a side whose handshake failed has its
\* operation rejected and never starts its transfer.
C25_HandshakeBeforeTransfer ==
  /\ sx.log # <<>> => au.A.st = "ok"
  /\ SinkTouched => au.B.st = "ok"
  /\ au.A.st = "rejected" =>
       /\ sx.log = <<>>
       /\ sx.pc = (IF au.mode = "dtls" THEN "failed" ELSE "auth")
  /\ au.B.st = "rejected" =>
       /\ cmd.state = "failed"
       /\ ~rx.subscribed
       /\ ~SinkTouched

\* the sender's frames were in flight while the receiver's handshake was
\* still open, and nothing of them reached the sink
C25_Witness ==
  /\ hist.missed
  /\ sx.log # <<>>
  /\ au.A.st = "ok"
  /\ au.B.st \notin {"ok", "rejected"}
  /\ ~SinkTouched

\* both profiles get to written bytes after both handshakes
C25_WitnessWritten ==
  /\ au.mode = "pq"
  /\ sink.data # <<>>
  /\ au.B.st = "ok"

(***************************************************************************)
(* SpecTeardown: the teardown of the send and of the receive command, from *)
(* the return of the transfer on.  Each side keeps the list of the channel *)
(* operations it has performed: a drain of the outbound buffer (flush), a  *)
(* wait for the counterpart (Fin acknowledgment, peer close) and the       *)
(* force-close.  flush / forceCloseNoFlush are library calls that return   *)
(* or throw; the waits resolve on their event or on their timer.           *)
(***************************************************************************)
Outcomes == {"ok", "throw"}

WaitEnds == {"event", "timeout"}

Step(op, how) == [op |-> op, how |-> how]

\* send.js run: pqSend / defaultSend returns, or throws into the finally
SendReturns(out) ==
  /\ td.s = "idle"
  /\ td' = [td EXCEPT !.s = IF out = "ok" THEN "flush" ELSE "finally",
                      !.sLog = <<Step("xfer", out)>>]
  /\ UNCHANGED <<xferVars, rp, au, md, wt, fsk, tp, bk>>

\* if (typeof rtc?.flush === "function") try { await rtc.flush() } catch {}
\* and, after the wait for the Fin acknowledgment,
\* try { await flush(rtc, { timeoutMs: 15000 }) } catch {}
SendDrain(out) ==
  /\ \/ td.s = "flush" /\ td.hasFlush
     \/ td.s = "drain"
  /\ td' = [td EXCEPT !.s = IF td.s = "flush" THEN "finack" ELSE "peerclose",
                      !.sLog = Append(@, Step("drain", out))]
  /\ UNCHANGED <<xferVars, rp, au, md, wt, fsk, tp, bk>>

\* else await sleep(150)
SendSleep ==
  /\ td.s = "flush"
  /\ ~td.hasFlush
  /\ td' = [td EXCEPT !.s = "finack", !.sLog = Append(@, Step("sleep", "ok"))]
  /\ UNCHANGED <<xferVars, rp, au, md, wt, fsk, tp, bk>>

\* await waitForFinAck(...): resolves on the acknowledgment, the close or
\* its timer
SendWaitFinAck(how) ==
  /\ td.s = "finack"
  /\ td' = [td EXCEPT !.s = "drain", !.sLog = Append(@, Step("waitack", how))]
  /\ UNCHANGED <<xferVars, rp, au, md, wt, fsk, tp, bk>>

\* await waitForPeerClose(rtc, 1500): resolves on the close or its timer
SendWaitPeerClose(how) ==
  /\ td.s = "peerclose"
  /\ td' = [td EXCEPT !.s = "finally", !.sLog = Append(@, Step("wait", how))]
  /\ UNCHANGED <<xferVars, rp, au, md, wt, fsk, tp, bk>>

\* finally { try { await forceCloseNoFlush(rtc) } catch {}
\*           try { scrubTransport(rtc) } catch {}
\*           try { signal?.close?.() } catch {} ... }
SendForceClose(out) ==
  /\ td.s = "finally"
  /\ td' = [td EXCEPT !.s = "done", !.sLog = Append(@, Step("close", out)),
                      !.sRtc = "closed", !.sSig = "closed"]
  /\ UNCHANGED <<xferVars, rp, au, md, wt, fsk, tp, bk>>

\* recv.js run: safeRecv returns, or throws into the finally
RecvReturns(out) ==
  /\ td.r = "idle"
  /\ td' = [td EXCEPT !.r = IF out = "ok" THEN "sinkclose" ELSE "finally",
                      !.rLog = <<Step("xfer", out)>>]
  /\ UNCHANGED <<xferVars, rp, au, md, wt, fsk, tp, bk>>

\* await sink.close(): a throw goes to the finally
RecvSinkClose(out) ==
  /\ td.r = "sinkclose"
  /\ td' = [td EXCEPT !.r = IF out = "ok" THEN "flush" ELSE "finally",
                      !.rLog = Append(@, Step("sinkclose", out))]
  /\ UNCHANGED <<xferVars, rp, au, md, wt, fsk, tp, bk>>

\* try { if (typeof rtc.flush === "function") await rtc.flush() } catch {}
RecvDrain(out) ==
  /\ td.r = "flush"
  /\ td.hasFlush
  /\ td' = [td EXCEPT !.r = "peerclose", !.rLog = Append(@, Step("drain", out))]
  /\ UNCHANGED <<xferVars, rp, au, md, wt, fsk, tp, bk>>

\* the same statement on a channel without flush(): nothing is awaited
RecvNoDrain ==
  /\ td.r = "flush"
  /\ ~td.hasFlush
  /\ td' = [td EXCEPT !.r = "peerclose"]
  /\ UNCHANGED <<xferVars, rp, au, md, wt, fsk, tp, bk>>

\* await waitForPeerClose(rtc, 1500)
RecvWaitClose(how) ==
  /\ td.r = "peerclose"
  /\ td' = [td EXCEPT !.r = "finally", !.rLog = Append(@, Step("wait", how))]
  /\ UNCHANGED <<xferVars, rp, au, md, wt, fsk, tp, bk>>

\* finally { try { await flush(rtc, { timeoutMs: 15000 }) } catch {} ...
RecvFinallyDrain(out) ==
  /\ td.r = "finally"
  /\ td' = [td EXCEPT !.r = "closing", !.rLog = Append(@, Step("drain", out))]
  /\ UNCHANGED <<xferVars, rp, au, md, wt, fsk, tp, bk>>

\* ... try { await forceCloseNoFlush(rtc) } catch {} ... }
RecvForceClose(out) ==
  /\ td.r = "closing"
  /\ td' = [td EXCEPT !.r = "done", !.rLog = Append(@, Step("close", out))]
  /\ UNCHANGED <<xferVars, rp, au, md, wt, fsk, tp, bk>>

InitTeardown ==
  /\ XferIdle
  /\ rp = RpIdle
  /\ au = AuIdle
  /\ md = MdIdle
  /\ bk = BkIdle
  /\ wt = WtIdle
  /\ fsk = FskIdle
  /\ tp = TpIdle
  /\ \E f \in BOOLEAN : td = [TdIdle EXCEPT !.hasFlush = f]

NextTeardown ==
  \/ \E out \in Outcomes : SendReturns(out)
  \/ \E out \in Outcomes : SendDrain(out)
  \/ SendSleep
  \/ \E how \in WaitEnds : SendWaitFinAck(how)
  \/ \E how \in WaitEnds : SendWaitPeerClose(how)
  \/ \E out \in Outcomes : SendForceClose(out)
  \/ \E out \in Outcomes : RecvReturns(out)
  \/ \E out \in Outcomes : RecvSinkClose(out)
  \/ \E out \in Outcomes : RecvDrain(out)
  \/ RecvNoDrain
  \/ \E how \in WaitEnds : RecvWaitClose(how)
  \/ \E out \in Outcomes : RecvFinallyDrain(out)
  \/ \E out \in Outcomes : RecvForceClose(out)

SpecTeardown == InitTeardown /\ [][NextTeardown]_vars

\* the positions of the operation op in a side's list
At(L, op) == {k \in 1..Len(L) : L[k].op = op}

\* the transfer of the side (and, on the receiver, the close of the sink)
\* has succeeded
TransferOver(L) ==
  /\ L # <<>>
  /\ L[1].how = "ok"
  /\ \A k \in At(L, "sinkclose") : L[k].how = "ok"

\* the list of a side that has finished: one force-close, at the end; after
\* a transfer a drain, then the wait for the counterpart's close, then the
\* force-close; a wait for the close never without a drain before it
TeardownInOrder(L) ==
  /\ At(L, "close") = {Len(L)}
  /\ \A w \in At(L, "wait") : \E d \in At(L, "drain") : d < w
  /\ TransferOver(L) =>
       \E d \in At(L, "drain") : \E w \in At(L, "wait") : d < w /\ w < Len(L)

\* C26: on each side the teardown after a transfer drains the outbound
\* buffer, then waits for the counterpart to close, then force-closes the
\* channel, and the force-close is performed whether or not the drain threw
\* and whether the waits ended by their event or by their timer; nothing is
\* done on the channel after the force-close.
C26_TeardownOrder ==
  /\ td.s = "done" => TeardownInOrder(td.sLog)
  /\ td.r = "done" => TeardownInOrder(td.rLog)
  /\ td.s # "done" => At(td.sLog, "close") = {}
  /\ td.r # "done" => At(td.rLog, "close") = {}
  /\ (td.s \in {"finally", "done"} /\ TransferOver(td.sLog)) => At(td.sLog, "wait") # {}
  /\ (td.r \in {"finally", "closing", "done"} /\ TransferOver(td.rLog)) =>
       At(td.rLog, "wait") # {}

\* neither the handler of defaultRecv nor the early tap has seen an Init of
\* the session
NoInitObserved == rx.announced = Null /\ ~tracker.sawInit

\* a Data payload has been handed to the sink, or its write is queued
DataTaken ==
  \/ sink.data # <<>>
  \/ rx.written > 0
  \/ \E k \in 1..Len(rx.queue) : rx.queue[k].t = "write"

\* C27: the receiver hands no Data payload to its sink, and queues no write
\* of one, before it has observed an Init of the session; a Data frame that
\* arrives before any Init is held or ignored.
C27_NoDataBeforeInit == DataTaken => ~NoInitObserved

\* the step hands the frame at the head of the channel to the receiver
Handled == chan # <<>> /\ chan' = Tail(chan) /\ closed' = closed

\* C28: a step in which the receiver handles an Init, Data or Fin frame whose
\* sessionId is not the session's leaves the receiver as it was: the
\* announced total, the written count, the write queue, the completion
\* state, the sink (contents, announced total, name), the early tap, the
\* command's outcome and the frames sent back are all unchanged, and no error
\* is raised.
C28_ForeignIgnored ==
  [][(Handled /\ Head(chan).sessionId # SID) =>
       (rx' = rx /\ sink' = sink /\ tracker' = tracker /\ cmd' = cmd /\ back' = back)]_vars

\* a foreign frame was handled by a receiver in the middle of a transfer
C28_Witness ==
  /\ hist.foreign
  /\ cmd.state = "running"
  /\ rx.announced # Null
  /\ rx.written > 0
  /\ rx.doneP = "pending"

\* the file content of the session, without the MetaHeader the post-quantum
\* sender put in front of its source
Content == Drop(Payload, IF rx.pq THEN hist.hdr ELSE 0)

\* C29: in a session that carries a MetaHeader, in either mode, the receiver
\* strips it once, from the first Data frame (the first chunk in the
\* post-quantum mode): what the sink has been handed is always a prefix of
\* the file content, so no header byte is written and every later frame is
\* written verbatim even when it begins with the magic bytes, and the
\* receiver's written count never exceeds the bytes handed to the sink, so
\* no header byte is counted.
C29_HeaderStrippedOnce ==
  (hist.hdr > 0 /\ ~hist.missed) =>
    /\ IsPrefix(sink.data, Content)
    /\ rx.written <= Len(sink.data)
    /\ hist.by = "fin" => hist.written = Len(Content)

\* C30: after a frame has been handled the replay buffer holds at most MAX
\* (32) frames, and while no subscriber has attached it holds exactly the
\* most recent MAX allow-listed frames of the session in arrival order: a
\* frame that arrives while MAX are buffered pushes the oldest one out.
C30_BufferBounded ==
  /\ Len(rp.buf) <= MAX
  /\ rp.sub = "none" => rp.buf = LastN(Eligible(rp.arrived), MAX)
  /\ rp.sub # "none" => rp.buf = <<>>

\* more than MAX allow-listed frames have arrived with no subscriber: the
\* buffer is full and its oldest frames are gone
C30_Witness ==
  /\ rp.sub = "none"
  /\ Len(Eligible(rp.arrived)) >= MAX + 2
  /\ Len(rp.buf) = MAX
  /\ rp.buf[1] # Eligible(rp.arrived)[1]
  /\ rp.buf[MAX] = rp.arrived[Len(rp.arrived)]

\* C31: once the wrapper's onMessage has been called, the wrapper has left
\* buffering for good: consumerAttached stays set and the buffer is empty in
\* every later state, while the subscriber listens, after it has
\* unsubscribed, and whatever allow-listed frames arrive afterwards.
C31_PassThroughForever ==
  rp.sub # "none" => (rp.consumerAttached /\ rp.buf = <<>>)

\* frames were buffered and replayed, the subscriber has unsubscribed, and
\* allow-listed frames of the session have arrived since
C31_Witness ==
  /\ rp.sub = "off"
  /\ Eligible(BeforeSub) # <<>>
  /\ Len(rp.arrived) >= rp.detachedAt + 2
  /\ \A k \in (rp.detachedAt + 1)..Len(rp.arrived) : tapAccepts(rp.arrived[k], SID)
  /\ rp.buf = <<>>

(***************************************************************************)
(* SpecCollect: the pre-scan of makeTarPack over a small file tree.  A     *)
(* file is the list of its path segments below the directory the send was  *)
(* started in; the files come in the order the recursion visits them.      *)
(***************************************************************************)
TreeFiles ==
  << <<"a", "x">>, <<"a", "y">>, <<"b", "x">>, <<"b", "sub", "y">>, <<"x">> >>

\* the file trees: the regular files found under the paths given
Trees == {SelectSeq(TreeFiles, LAMBDA f : f \in S) : S \in SUBSET {TreeFiles[k] : k \in 1..Len(TreeFiles)}}

\* the --exclude patterns: none, or the literal name y
ExcludeChoices == {{}, {"y"}}

\* path.basename(abs)
basename(p) == p[Len(p)]

\* exclude.length && micromatch.isMatch(base, exclude), for literal patterns
isMatch(base, exclude) == exclude # {} /\ base \in exclude

\* collect(p) on a regular file: the entry it pushes, if any
collectFile(entries, abs, exclude) ==
  LET base == basename(abs)
  IN IF isMatch(base, exclude) THEN entries
     ELSE Append(entries, [abs |-> abs, name |-> base])

\* one regular file of the recursion of collect
CollectStep ==
  /\ tp.pc = "collect"
  /\ tp.cur <= Len(tp.items)
  /\ tp' = [tp EXCEPT !.entries = collectFile(@, tp.items[tp.cur], tp.exclude),
                      !.cur = @ + 1]
  /\ UNCHANGED <<xferVars, rp, au, md, wt, fsk, td, bk>>

\* the scan is over: the entries are handed to the packer
CollectDone ==
  /\ tp.pc = "collect"
  /\ tp.cur > Len(tp.items)
  /\ tp' = [tp EXCEPT !.pc = "collected"]
  /\ UNCHANGED <<xferVars, rp, au, md, wt, fsk, td, bk>>

InitCollect ==
  /\ XferIdle
  /\ rp = RpIdle
  /\ au = AuIdle
  /\ md = MdIdle
  /\ bk = BkIdle
  /\ wt = WtIdle
  /\ fsk = FskIdle
  /\ td = TdIdle
  /\ \E items \in Trees : \E exclude \in ExcludeChoices :
       tp = [pc |-> "collect", items |-> items, entries |-> <<>>, cur |-> 1,
             exclude |-> exclude]

NextCollect ==
  \/ CollectStep
  \/ CollectDone

SpecCollect == InitCollect /\ [][NextCollect]_vars

\* C32: two distinct files of the fileset never get the same entry name in
\* the archive (each is stored under its root-relative path).
C32_EntryNamesDistinct ==
  tp.pc \in {"collect", "collected"} =>
    \A i, j \in 1..Len(tp.entries) :
      tp.entries[i].abs # tp.entries[j].abs => tp.entries[i].name # tp.entries[j].name

C34_DecidedOnce ==
  [][fsk.pc \in {"pending", "open", "error"} =>
       /\ fsk'.pc \in {"pending", "open", "error"}
       /\ fsk'.label = fsk.label
       /\ fsk'.filePath = fsk.filePath
       /\ fsk'.flags = fsk.flags]_vars

\* after the start another name and a total have come in through info() and
\* further writes have gone to the file that was opened first
C34_Witness ==
  /\ fsk.pc = "open"
  /\ fsk.desiredName # NoName
  /\ fsk.desiredName # fsk.label
  /\ fsk.announced # 0
  /\ fsk.writes = MaxSinkWrites
  /\ fsk.written = {fsk.filePath}

\* C35: when the transfer ended at a Fin and every frame of the sender
\* reached the receiver, the receive command has succeeded only if the bytes
\* written to the sink equal the total the Init announced.
C35_SuccessOnlyOnMatch ==
  (cmd.state = "ok" /\ hist.by = "fin" /\ ~hist.missed) =>
    NInt(sink.written) = sx.total

\* C36: when every frame of the sender reached the receiver and a write to
\* the sink has failed, the receive command does not report success, and
\* when it has settled it has failed.
C36_WriteFailureFails ==
  (hist.wfail > 0 /\ ~hist.missed) =>
    /\ cmd.state # "ok"
    /\ rx.pc = "done" => cmd.state = "failed"

\* C37: in the direct mode every Init, Data and Fin frame of the session
\* that is taken from the receiver's channel is handled by defaultRecv's
\* frame handler, also when it arrives while the receiver's handshake has
\* not returned yet: no frame of the session is lost to the receiver.
C37_NoFrameMissed ==
  au.mode = "dtls" => ~hist.missed

\* send.js run after defaultSend has returned: the flush is caught, the waits
\* for the Fin acknowledgment and for the peer's close resolve on their
\* timers, and run prints Done: the command succeeds
SendCommandSucceeded == sx.pc = "done"

\* C38: the send command succeeds only if the Fin it sent carried ok:true,
\* that is only if it transmitted exactly the announced number of payload
\* bytes.
C38_SendSuccessOnlyIfOk ==
  SendCommandSucceeded =>
    /\ Len(FinsSent) = 1
    /\ FinsSent[1].ok
    /\ sx.total = NInt(Len(Payload))

(***************************************************************************)
(* SpecSendRun: the send command from its start to its return: signaling,  *)
(* dial, the computation and check of totalBytes, then the try / finally   *)
(* around the transfer with the teardown of SpecTeardown.                  *)
(***************************************************************************)
\* what the command computes as totalBytes (--size, st.size, totalSizeTar)
ComputedTotals == {NInt(1), NInt(2), NInt(0), NInt(-1), NFrac(5), NaN}

\* createSignalClient, waitForRoomFull, dialRTC("initiator", ...): the dial
\* returns the channel, or times out and throws out of run
SendDial(out) ==
  /\ td.s = "start"
  /\ td' = [td EXCEPT !.s = IF out = "ok" THEN "dialed" ELSE "thrown",
                      !.sSig = "open",
                      !.sRtc = IF out = "ok" THEN "open" ELSE "none"]
  /\ UNCHANGED <<xferVars, rp, au, md, wt, fsk, tp, bk>>

\* the source and totalBytes are built and checked, before the try block:
\* throw new Error(`internal: computed totalBytes invalid (...)`)
SendSizeCheck ==
  /\ td.s = "dialed"
  /\ td' = [td EXCEPT !.s = IF runTotalValid(td.total) THEN "idle" ELSE "thrown"]
  /\ UNCHANGED <<xferVars, rp, au, md, wt, fsk, tp, bk>>

InitSendRun ==
  /\ XferIdle
  /\ rp = RpIdle
  /\ au = AuIdle
  /\ md = MdIdle
  /\ bk = BkIdle
  /\ wt = WtIdle
  /\ fsk = FskIdle
  /\ tp = TpIdle
  /\ \E f \in BOOLEAN : \E t \in ComputedTotals :
       td = [TdIdle EXCEPT !.s = "start", !.hasFlush = f, !.total = t,
                           !.sRtc = "none", !.sSig = "none"]

NextSendRun ==
  \/ \E out \in Outcomes : SendDial(out)
  \/ SendSizeCheck
  \/ \E out \in Outcomes : SendReturns(out)
  \/ \E out \in Outcomes : SendDrain(out)
  \/ SendSleep
  \/ \E how \in WaitEnds : SendWaitFinAck(how)
  \/ \E how \in WaitEnds : SendWaitPeerClose(how)
  \/ \E out \in Outcomes : SendForceClose(out)

SpecSendRun == InitSendRun /\ [][NextSendRun]_vars

\* run has returned, normally or by throwing
SendRunEnded == td.s \in {"done", "thrown"}

\* C39: whenever the send command has ended after the peer channel was
\* opened (after a success, a failed handshake or transfer, or an invalid
\* computed size), the channel has been force-closed and the signaling
\* client has been closed.
C39_ClosedOnEveryPath ==
  (SendRunEnded /\ td.sRtc # "none") =>
    (td.sRtc = "closed" /\ td.sSig = "closed")

(***************************************************************************)
(* SpecBroker: the signaling broker, one appID.  A room object has an      *)
(* identity (the connection handler's closure keeps the object it found or *)
(* made); a socket is known by the order in which it connected.            *)
(***************************************************************************)
MaxSockets == 4

EmptyRoom == [A |-> 0, B |-> 0]

\* rooms: the room object the Map holds for the appID (0: no entry);
\* slot: the fields of every room object made so far;
\* socks: the sockets in connection order; last: the last message relayed
BkInit ==
  [rooms |-> 0, slot |-> <<>>, socks |-> <<>>,
   last |-> [from |-> 0, to |-> 0, newest |-> 0]]

\* the sockets of a side, and the one that connected last
SocketsOf(b, X) == {k \in 1..Len(b.socks) : b.socks[k].side = X}

Newest(b, X) ==
  IF SocketsOf(b, X) = {} THEN 0
  ELSE CHOOSE k \in SocketsOf(b, X) : \A j \in SocketsOf(b, X) : j <= k

\* wss.on("connection"): rooms.get / rooms.set, room[side] = ws
brokerConnect(b, X) ==
  LET fresh == b.rooms = 0
      room == IF fresh THEN Len(b.slot) + 1 ELSE b.rooms
      slot1 == IF fresh THEN Append(b.slot, EmptyRoom) ELSE b.slot
      ws == Len(b.socks) + 1
  IN [b EXCEPT !.rooms = room,
               !.slot = [slot1 EXCEPT ![room][X] = ws],
               !.socks = Append(@, [side |-> X, room |-> room, open |-> TRUE])]

\* cleanup: if (rooms.get(appID) === room) { room[side] = null;
\*            if (!room.A && !room.B) rooms.delete(appID); }
brokerCleanup(b, k) ==
  LET room == b.socks[k].room
      X == b.socks[k].side
  IN IF b.rooms = room
     THEN LET slot1 == [b.slot EXCEPT ![room][X] = 0]
          IN [b EXCEPT !.slot = slot1,
                       !.rooms = IF slot1[room] = EmptyRoom THEN 0 ELSE @]
     ELSE b

\* ws.on("message"): const peer = room[otherSide];
\*                   if (peer && peer.readyState === 1) peer.send(data)
brokerRelay(b, k) ==
  LET peer == b.slot[b.socks[k].room][Other(b.socks[k].side)]
  IN IF peer # 0 /\ b.socks[peer].open THEN peer ELSE 0

\* a client of side X connects (a first connect, or a reconnect)
BrokerConnect(X) ==
  /\ Len(bk.socks) < MaxSockets
  /\ bk' = brokerConnect(bk, X)
  /\ UNCHANGED <<xferVars, rp, au, md, wt, fsk, tp, td>>

\* the close event of a socket
BrokerClose(k) ==
  /\ bk.socks[k].open
  /\ bk' = brokerCleanup([bk EXCEPT !.socks[k].open = FALSE], k)
  /\ UNCHANGED <<xferVars, rp, au, md, wt, fsk, tp, td>>

\* an open socket sends a message to the broker
BrokerMessage(k) ==
  /\ bk.socks[k].open
  /\ LET X == Other(bk.socks[k].side)
         n == Newest(bk, X)
     IN bk' = [bk EXCEPT !.last = [from |-> k, to |-> brokerRelay(bk, k),
                                   newest |-> IF n # 0 /\ bk.socks[n].open THEN n ELSE 0]]
  /\ bk'.last # bk.last
  /\ UNCHANGED <<xferVars, rp, au, md, wt, fsk, tp, td>>

InitBroker ==
  /\ XferIdle
  /\ rp = RpIdle
  /\ au = AuIdle
  /\ md = MdIdle
  /\ wt = WtIdle
  /\ fsk = FskIdle
  /\ tp = TpIdle
  /\ td = TdIdle
  /\ bk = BkInit

NextBroker ==
  \/ \E X \in Sides : BrokerConnect(X)
  \/ \E k \in 1..Len(bk.socks) : BrokerClose(k)
  \/ \E k \in 1..Len(bk.socks) : BrokerMessage(k)

SpecBroker == InitBroker /\ [][NextBroker]_vars

\* C40: after any sequence of connects and disconnects, while the most
\* recently connected socket of a side is open, the room of the appID exists
\* and its slot for that side holds that socket, and the last message sent
\* by a socket of the other side's current connection was relayed to it.
C40_SlotHoldsNewest ==
  /\ \A X \in Sides :
       LET n == Newest(bk, X)
       IN (n # 0 /\ bk.socks[n].open) =>
            (bk.rooms # 0 /\ bk.slot[bk.rooms][X] = n)
  /\ (bk.last.from # 0 /\ bk.last.from = Newest(bk, bk.socks[bk.last.from].side)
        /\ bk.last.newest # 0) =>
       bk.last.to = bk.last.newest

====
